---- MODULE Spec2Model ----
(***************************************************************************)
(* QUICR-Q fragment cache, its readers and the relay cache management.     *)
(*                                                                         *)
(* The key-order splay is held as the sequence of its records in in-order  *)
(* traversal (fragment_tree); a record is named by the address malloc gave *)
(* it (ptr, 0 is NULL).  The arrival list is held as in the C structure:   *)
(* first_fragment / last_fragment in the cache context and                 *)
(* previous_in_order / next_in_order in every record.                      *)
(*                                                                         *)
(* C evaluates the argument of a call and the value of a local once.  The  *)
(* same is written here  CHOOSE r \in {F(v) : v \in {e}} : TRUE :  v is the *)
(* value of e, and r the value of F at it.                                 *)
(***************************************************************************)
EXTENDS Integers, Sequences, FiniteSets, TLC

(***************************************************************************)
(* Bounds of the model.                                                    *)
(***************************************************************************)
MaxGroup == 1        \* group ids proposed: 0..MaxGroup
MaxObject == 1       \* object ids proposed: 0..MaxObject
MaxEnd == 3          \* offset + data_length of a proposal is at most MaxEnd
MaxFragments == 3    \* a propose is accepted while fewer records were allocated
MaxMediaFragments == 2   \* the same, for the fragments of the published media
MaxFailAt == 2       \* which malloc of a propose call may fail: 1..MaxFailAt
MaxAllocFragments == 2   \* the bound on records allocated where a malloc may fail
MaxTime == 30000000  \* the clock stops advancing here
NumReaders == 1      \* reader streams that may subscribe to the source
MaxSent == 4         \* a reader is polled while it has handed over fewer fragments
MaxSkipFragments == 3    \* fragments proposed where congestion skips objects
MaxLost == 1         \* datagrams of a reader the transport reports lost
MaxHandled == 3      \* control messages looked at on the control stream
MaxBatch == 2        \* control messages one stream data callback brings
MaxUrl == 64         \* bytes of the longest url encoded
MaxLossReports == 2  \* loss reports of a reader where a report may be stale

\* fragments that arrive at a real-time relay
MaxPurgeFragments == 3

\* fragments that arrive before the consumer closes the cache
MaxCloseFragments == 3

\* control messages queued on one stream
MaxMessages == 2
\* bytes of the long control message: the least size whose length prefix
\* has a nonzero high byte
LongMessage == 256
\* bytes of the control stream sent and not yet delivered
MaxInFlight == 8
\* connections to a relay, streams on each, patterns subscribed to
MaxCnx == 2
MaxCnxStreams == 2
NumPatterns == 2

NULL == 0
\* the largest unsigned value; 2^31 - 1 stands for 2^64 - 1, above every id,
\* offset and time of the model
UINT64_MAX == 2147483647
CacheDeleteDelayLong == 30000000    \* close with the end not yet known
CacheDeleteDelayShort == 3000000    \* close with the end already known
SkipFlags == 255
RepeatGuardTime == 1000              \* a loss report this much older than the last send is stale
CacheDuration == 5000000            \* quicrq_set_cache_duration in the triangle test
ObjectLength == 2                   \* bytes per object of the published media

Readers == 1..NumReaders

(***************************************************************************)
(* State.                                                                  *)
(***************************************************************************)
VARIABLES
    cached_ctx,     \* quicrq_fragment_cached_media_t
    srce_ctx,       \* quicrq_media_source_ctx_t of the cache: is it published still
    streams,        \* reader streams: stream context and publisher context
    qr_ctx,         \* quicrq_ctx_t: cache_duration_max, is_cache_closing_needed, first_cnx
    current_time,   \* the clock handed to the callbacks
    hung,           \* the (single) thread is inside a loop that never ends, or faulted
    proposed,       \* history: bytes <<g, o, position>> of the proposals accepted
    ret,            \* what the last consumer callback returned
    sent,           \* history: per reader, the fragments it handed to the transport
    control_ctx,    \* quicrq_stream_ctx_t of a control stream, as its receive side uses it
    handled,        \* history: the messages the control stream looked at and their fate
    wire,           \* a control message, the bytes it is encoded to, what they decode to
    pipe            \* a control stream: message_sent, the bytes in flight, message_receive

vars == <<cached_ctx, srce_ctx, streams, qr_ctx, current_time, hung, proposed, ret, sent,
          control_ctx, handled, wire, pipe>>

(***************************************************************************)
(* Key order of the splay (node_compare) and the picosplay primitives on   *)
(* the in-order sequence.                                                  *)
(***************************************************************************)
quicrq_fragment_cache_node_compare(l, r) ==
    IF l.group_id # r.group_id THEN l.group_id - r.group_id
    ELSE IF l.object_id # r.object_id THEN l.object_id - r.object_id
    ELSE IF l.offset < r.offset THEN -1
    ELSE IF l.offset > r.offset THEN 1
    ELSE 0

\* picosplay_insert: the new node goes right of every node it does not
\* compare below, so it lands after all records with a lower or equal key.
picosplay_insert(tree, f) ==
    LET n == Cardinality({i \in 1..Len(tree) :
                 quicrq_fragment_cache_node_compare(f, tree[i]) >= 0})
    IN SubSeq(tree, 1, n) \o <<f>> \o SubSeq(tree, n + 1, Len(tree))

\* index of the record with address ptr (0 when ptr is NULL or not in tree)
NodeIndex(tree, ptr) ==
    IF \E i \in 1..Len(tree) : tree[i].ptr = ptr
    THEN CHOOSE i \in 1..Len(tree) : tree[i].ptr = ptr
    ELSE 0

\* picosplay_find_previous: the last record in key order that is not above
\* the key.
picosplay_find_previous(tree, key) ==
    LET n == Cardinality({i \in 1..Len(tree) :
                 quicrq_fragment_cache_node_compare(key, tree[i]) >= 0})
    IN IF n = 0 THEN NULL ELSE tree[n].ptr

\* key.offset = UINT64_MAX, lines 218-220
ObjectEndKey(group_id, object_id) ==
    [group_id |-> group_id, object_id |-> object_id, offset |-> UINT64_MAX]

picosplay_previous(tree, ptr) ==
    LET i == NodeIndex(tree, ptr)
    IN IF i <= 1 THEN NULL ELSE tree[i - 1].ptr

picosplay_next(tree, ptr) ==
    LET i == NodeIndex(tree, ptr)
    IN IF i = 0 \/ i = Len(tree) THEN NULL ELSE tree[i + 1].ptr

picosplay_first(tree) == IF Len(tree) = 0 THEN NULL ELSE tree[1].ptr

Fragment(tree, ptr) == tree[NodeIndex(tree, ptr)]

(***************************************************************************)
(* quicrq_fragment_cache_progress: advance next_group_id / next_object_id  *)
(* / next_offset from the record at index node onward.                     *)
(***************************************************************************)
RECURSIVE quicrq_fragment_cache_progress(_, _)
quicrq_fragment_cache_progress(c, ptr) ==
    IF ptr = NULL THEN c
    ELSE
        LET fragment == Fragment(c.fragment_tree, ptr)
            is_next == /\ fragment.group_id = c.next_group_id
                       /\ fragment.object_id = c.next_object_id
                       /\ fragment.offset = c.next_offset
            is_new_group == /\ ~is_next
                            /\ fragment.group_id = c.next_group_id + 1
                            /\ fragment.object_id = 0
                            /\ fragment.offset = 0
                            /\ c.next_object_id > 0
                            /\ c.next_offset = 0
                            /\ c.next_object_id = fragment.nb_objects_previous_group
            c1 == IF is_new_group
                  THEN [c EXCEPT !.next_group_id = @ + 1,
                                 !.next_object_id = 0,
                                 !.next_offset = 0]
                  ELSE c
            c2 == IF fragment.is_last_fragment
                  THEN [c1 EXCEPT !.next_object_id = @ + 1, !.next_offset = 0]
                  ELSE [c1 EXCEPT !.next_offset = @ + fragment.data_length]
        IN IF is_next \/ is_new_group
           THEN CHOOSE r \in {quicrq_fragment_cache_progress(v[1], v[2]) :
                                 v \in {<<c2, picosplay_next(c.fragment_tree, ptr)>>}} : TRUE
           ELSE c

(***************************************************************************)
(* quicrq_fragment_add_to_cache.  p holds the arguments of the enclosing   *)
(* propose call; nb_alloc counts the mallocs that call has already made,   *)
(* and malloc number p.fail_at returns NULL.                               *)
(***************************************************************************)
quicrq_fragment_add_to_cache(c, p, nb_objects_previous_group, data_length, nb_alloc) ==
    IF p.fail_at = nb_alloc + 1
    THEN [c |-> c, ret |-> -1]
    ELSE
        LET ptr == c.last_ptr + 1
            fragment == [ptr |-> ptr,
                         group_id |-> p.group_id,
                         object_id |-> p.object_id,
                         offset |-> p.offset,
                         cache_time |-> p.current_time,
                         flags |-> p.flags,
                         nb_objects_previous_group |-> nb_objects_previous_group,
                         is_last_fragment |-> p.is_last_fragment,
                         data_length |-> data_length,
                         data |-> SubSeq(p.data, 1, data_length),
                         previous_in_order |-> c.last_fragment,
                         next_in_order |-> NULL]
            linked == [i \in 1..Len(c.fragment_tree) |->
                         IF c.fragment_tree[i].ptr = c.last_fragment
                         THEN [c.fragment_tree[i] EXCEPT !.next_in_order = ptr]
                         ELSE c.fragment_tree[i]]
            c1 == [c EXCEPT !.last_ptr = ptr,
                            !.first_fragment = IF c.last_fragment = NULL THEN ptr ELSE @,
                            !.last_fragment = ptr,
                            !.fragment_tree = picosplay_insert(linked, fragment)]
        IN CHOOSE r \in {[c |-> quicrq_fragment_cache_progress(v, ptr), ret |-> 0] :
                             v \in {c1}} : TRUE

(***************************************************************************)
(* quicrq_fragment_propose_to_cache.                                       *)
(***************************************************************************)
\* one pass through the body of the do-while loop (lines 223-259)
ProposeLoopBody(s, p) ==
    LET tree == s.c.fragment_tree
        is_null == s.last_fragment_node = NULL
        first_fragment_state == Fragment(tree, s.last_fragment_node)
    IN
    IF \/ is_null
       \/ first_fragment_state.group_id # p.group_id
       \/ first_fragment_state.object_id # p.object_id
       \/ first_fragment_state.offset + first_fragment_state.data_length < p.offset
    THEN
        \* insert the whole fragment
        CHOOSE s1 \in
            {[s EXCEPT !.c = r.c, !.ret = r.ret, !.data_was_added = TRUE,
                       !.data_length = 0, !.nb_alloc = @ + 1] :
               r \in {quicrq_fragment_add_to_cache(s.c, p, s.nb_objects_previous_group,
                                                   s.data_length, s.nb_alloc)}} : TRUE
    ELSE
        LET previous_last_byte == first_fragment_state.offset + first_fragment_state.data_length
            after == p.offset + s.data_length > previous_last_byte
            added_length == p.offset + s.data_length - previous_last_byte
            data_length1 == IF after THEN s.data_length - added_length ELSE s.data_length
            overlaps == p.offset >= first_fragment_state.offset
            data_length2 == IF overlaps THEN 0
                            ELSE IF first_fragment_state.offset < p.offset + data_length1
                                 THEN first_fragment_state.offset - p.offset
                                 ELSE data_length1
        IN CHOOSE s1 \in
            {[s EXCEPT !.c = r.c,
                       !.ret = r.ret,
                       !.data_was_added = @ \/ after,
                       !.nb_alloc = IF after THEN @ + 1 ELSE @,
                       !.nb_objects_previous_group = IF after THEN 0 ELSE @,
                       !.data_length = data_length2,
                       !.last_fragment_node =
                           IF overlaps THEN @
                           ELSE picosplay_previous(r.c.fragment_tree, s.last_fragment_node)] :
               r \in {IF after
                      THEN quicrq_fragment_add_to_cache(s.c, p, s.nb_objects_previous_group,
                                                        added_length, s.nb_alloc)
                      ELSE [c |-> s.c, ret |-> s.ret]}} : TRUE

RECURSIVE ProposeLoop(_, _)
ProposeLoop(s, p) ==
    CHOOSE r \in {IF s1.ret = 0 /\ s1.data_length > 0 THEN ProposeLoop(s1, p) ELSE s1 :
                     s1 \in {ProposeLoopBody(s, p)}} : TRUE

\* lines 266-293: is the object of the proposal now complete?  Walk back from
\* its last record while is_last_fragment was seen and offset 0 is not reached.
RECURSIVE ObjectWalkBack(_, _, _, _)
ObjectWalkBack(tree, p, node, previous_offset) ==
    IF previous_offset = 0 THEN TRUE
    ELSE
        LET previous == picosplay_previous(tree, node)
        IN IF previous = NULL THEN FALSE
           ELSE LET st == Fragment(tree, previous)
                IN IF \/ st.group_id # p.group_id
                      \/ st.object_id # p.object_id
                      \/ st.offset + st.data_length < previous_offset
                   THEN FALSE
                   ELSE ObjectWalkBack(tree, p, previous, st.offset)

ObjectIsComplete(tree, p) ==
    LET last_fragment_node ==
            picosplay_find_previous(tree, ObjectEndKey(p.group_id, p.object_id))
    IN /\ last_fragment_node # NULL
       /\ Fragment(tree, last_fragment_node).is_last_fragment
       /\ ObjectWalkBack(tree, p, last_fragment_node,
                         Fragment(tree, last_fragment_node).offset)

\* lines 212-216: the proposal is below the first object kept
TooOld(c, p) ==
    \/ p.group_id < c.first_group_id
    \/ p.group_id = c.first_group_id /\ p.object_id < c.first_object_id

\* lines 261-294, after the loop: count the object when it is complete
ProposeEnd(s, p) ==
    IF s.ret = 0 /\ s.data_was_added /\ ObjectIsComplete(s.c.fragment_tree, p)
    THEN [c |-> [s.c EXCEPT !.nb_object_received = @ + 1], ret |-> s.ret,
          data_was_added |-> s.data_was_added]
    ELSE [c |-> s.c, ret |-> s.ret, data_was_added |-> s.data_was_added]

\* lines 217-221, before the loop: the last record of the object, if any
ProposeStart(c, p) ==
    [c |-> c, ret |-> 0, data_was_added |-> FALSE,
     data_length |-> p.data_length,
     nb_objects_previous_group |-> p.nb_objects_previous_group,
     nb_alloc |-> 0,
     last_fragment_node |->
         picosplay_find_previous(c.fragment_tree, ObjectEndKey(p.group_id, p.object_id))]

quicrq_fragment_propose_to_cache(c, p) ==
    IF TooOld(c, p)
    THEN [c |-> c, ret |-> 0, data_was_added |-> FALSE]  \* too old to be considered
    ELSE CHOOSE r \in {ProposeEnd(s, p) :
                         s \in {ProposeLoop(ProposeStart(c, p), p)}} : TRUE

(***************************************************************************)
(* quicrq_fragment_cache_node_delete, as called by picosplay_delete_hint:  *)
(* unlink the record from the arrival list, then drop it from the tree.    *)
(***************************************************************************)
\* the same, the successor's previous_in_order left as it was
node_delete_keeps_back_link(c, ptr) ==
    LET fragment == Fragment(c.fragment_tree, ptr)
        kept == SelectSeq(c.fragment_tree, LAMBDA f : f.ptr # ptr)
        relinked == [i \in 1..Len(kept) |->
                       [kept[i] EXCEPT
                           !.next_in_order =
                               IF kept[i].ptr = fragment.previous_in_order
                               THEN fragment.next_in_order ELSE @]]
    IN [c EXCEPT !.first_fragment = IF fragment.previous_in_order = NULL
                                    THEN fragment.next_in_order ELSE @,
                 !.last_fragment = IF fragment.next_in_order = NULL
                                   THEN fragment.previous_in_order ELSE @,
                 !.fragment_tree = relinked]

quicrq_fragment_cache_node_delete(c, ptr) ==
    LET fragment == Fragment(c.fragment_tree, ptr)
        kept == SelectSeq(c.fragment_tree, LAMBDA f : f.ptr # ptr)
        relinked == [i \in 1..Len(kept) |->
                       [kept[i] EXCEPT
                           !.next_in_order =
                               IF kept[i].ptr = fragment.previous_in_order
                               THEN fragment.next_in_order ELSE @,
                           !.previous_in_order =
                               IF kept[i].ptr = fragment.next_in_order
                               THEN fragment.previous_in_order ELSE @]]
    IN [c EXCEPT !.first_fragment = IF fragment.previous_in_order = NULL
                                    THEN fragment.next_in_order ELSE @,
                 !.last_fragment = IF fragment.next_in_order = NULL
                                   THEN fragment.previous_in_order ELSE @,
                 !.fragment_tree = relinked]

(***************************************************************************)
(* quicrq_fragment_cache_learn_start_point (cache part).                   *)
(***************************************************************************)
\* lines 314-326: delete from the front while the record is before the start
RECURSIVE LearnStartLoop(_, _, _)
LearnStartLoop(c, start_group_id, start_object_id) ==
    LET first_fragment_node == picosplay_first(c.fragment_tree)
        first_fragment_state == Fragment(c.fragment_tree, first_fragment_node)
    IN IF first_fragment_node = NULL THEN c
       ELSE IF \/ first_fragment_state.group_id > start_group_id
               \/ /\ first_fragment_state.group_id = start_group_id
                  /\ first_fragment_state.object_id >= start_object_id
            THEN c
            ELSE CHOOSE r \in {LearnStartLoop(v, start_group_id, start_object_id) :
                                  v \in {quicrq_fragment_cache_node_delete(
                                             c, first_fragment_node)}} : TRUE

\* the start point taken as the frontier whether or not the frontier is
\* behind it
learn_start_point_resets_frontier(c, start_group_id, start_object_id) ==
    LET c1 == [c EXCEPT !.first_group_id = start_group_id,
                        !.first_object_id = start_object_id,
                        !.next_group_id = start_group_id,
                        !.next_object_id = start_object_id]
    IN CHOOSE r \in {LearnStartLoop(v, start_group_id, start_object_id) : v \in {c1}} : TRUE

quicrq_fragment_cache_learn_start_point(c, start_group_id, start_object_id) ==
    LET behind == \/ c.next_group_id < start_group_id
                  \/ /\ c.next_group_id = start_group_id
                     /\ c.next_object_id < start_object_id
        c1 == [c EXCEPT !.first_group_id = start_group_id,
                        !.first_object_id = start_object_id,
                        !.next_group_id = IF behind THEN start_group_id ELSE @,
                        !.next_object_id = IF behind THEN start_object_id ELSE @]
    IN CHOOSE r \in {LearnStartLoop(v, start_group_id, start_object_id) : v \in {c1}} : TRUE

(***************************************************************************)
(* quicrq_fragment_cache_learn_end_point.                                  *)
(***************************************************************************)
quicrq_fragment_cache_learn_end_point(c, final_group_id, final_object_id) ==
    [c EXCEPT !.final_group_id = final_group_id,
              !.final_object_id = final_object_id]

(***************************************************************************)
(* quicrq_fragment_cache_media_purge: the archival purge.  The result says *)
(* whether the outer loop ends (hangs = FALSE) or meets a first record     *)
(* that it neither keeps nor deletes and so examines again for ever.       *)
(***************************************************************************)
\* lines 462-478: are the records after fragment its contiguous, old enough
\* continuation up to a last fragment?
RECURSIVE PurgeObjectWalk(_, _, _, _, _, _)
PurgeObjectWalk(tree, fragment, node, next_offset, now, cache_duration_max) ==
    LET next_fragment_node == picosplay_next(tree, node)
        next_fragment == Fragment(tree, next_fragment_node)
    IN IF next_fragment_node = NULL THEN fragment.is_last_fragment
       ELSE IF \/ next_fragment.object_id # fragment.object_id
               \/ next_fragment.cache_time + cache_duration_max > now
               \/ next_fragment.offset # next_offset
            THEN fragment.is_last_fragment
            ELSE IF next_fragment.is_last_fragment THEN TRUE
                 ELSE PurgeObjectWalk(tree, fragment, next_fragment_node,
                                      next_offset + next_fragment.data_length,
                                      now, cache_duration_max)

\* lines 483-492: delete from the front while object_id < first_object_id
RECURSIVE PurgeDeleteLoop(_)
PurgeDeleteLoop(c) ==
    LET fragment_node == picosplay_first(c.fragment_tree)
    IN IF fragment_node = NULL THEN c
       ELSE IF Fragment(c.fragment_tree, fragment_node).object_id >= c.first_object_id
            THEN c
            ELSE CHOOSE r \in {PurgeDeleteLoop(v) :
                                  v \in {quicrq_fragment_cache_node_delete(
                                             c, fragment_node)}} : TRUE

RECURSIVE quicrq_fragment_cache_media_purge(_, _, _, _)
quicrq_fragment_cache_media_purge(c, now, cache_duration_max, first_object_id_kept) ==
    LET fragment_node == picosplay_first(c.fragment_tree)
        fragment == Fragment(c.fragment_tree, fragment_node)
    IN IF fragment_node = NULL THEN [c |-> c, hangs |-> FALSE]
       ELSE IF \/ fragment.object_id >= first_object_id_kept
               \/ fragment.cache_time + cache_duration_max > now
            THEN [c |-> c, hangs |-> FALSE]
            ELSE
              LET should_delete ==
                      IF c.is_closed THEN TRUE
                      ELSE /\ fragment.object_id # c.first_object_id
                           /\ fragment.offset = 0
                           /\ PurgeObjectWalk(c.fragment_tree, fragment, fragment_node,
                                              fragment.data_length, now, cache_duration_max)
              IN IF should_delete
                 THEN CHOOSE r \in
                          {quicrq_fragment_cache_media_purge(
                               v, now, cache_duration_max, first_object_id_kept) :
                             v \in {PurgeDeleteLoop(
                                       [c EXCEPT !.first_object_id = fragment.object_id + 1])}} :
                          TRUE
                 ELSE [c |-> c, hangs |-> TRUE]

(***************************************************************************)
(* quicrq_fragment_cache_media_purge_to_gob: the real-time purge.          *)
(* first_objects holds, for every stream attached to the source, the       *)
(* publisher_object_tree of its reader.                                    *)
(***************************************************************************)
\* lines 393-405: lowest of next_group_id and the group of the first object
\* in each reader's publisher_object_tree
KeptGroupId(c, object_trees) ==
    LET groups == {c.next_group_id} \cup
                  {t[1].group_id : t \in {u \in object_trees : Len(u) > 0}}
    IN CHOOSE g \in groups : \A h \in groups : g <= h

\* lines 408-421
RECURSIVE PurgeToGobLoop(_, _)
PurgeToGobLoop(c, kept_group_id) ==
    LET fragment_node == picosplay_first(c.fragment_tree)
        fragment == Fragment(c.fragment_tree, fragment_node)
    IN IF fragment_node = NULL THEN c
       ELSE IF fragment.group_id >= kept_group_id
            THEN [c EXCEPT !.first_group_id = fragment.group_id,
                           !.first_object_id = fragment.object_id]
            ELSE CHOOSE r \in {PurgeToGobLoop(v, kept_group_id) :
                                  v \in {quicrq_fragment_cache_node_delete(
                                             c, fragment_node)}} : TRUE

quicrq_fragment_cache_media_purge_to_gob(c, object_trees) ==
    CHOOSE r \in {PurgeToGobLoop(c, v) : v \in {KeptGroupId(c, object_trees)}} : TRUE

(***************************************************************************)
(* Readers: quicrq_fragment_publisher_context_t and the stream context     *)
(* fields the cache code writes.                                           *)
(***************************************************************************)
\* quicrq_fragment_publisher_subscribe: memset 0
InitMediaCtx ==
    [current_group_id |-> 0, current_object_id |-> 0, current_offset |-> 0,
     length_sent |-> 0, is_current_object_skipped |-> FALSE,
     is_current_fragment_sent |-> FALSE, has_backlog |-> FALSE,
     current_fragment |-> NULL, publisher_object_tree |-> <<>>]

\* quicrq_message_buffer_t after memset 0; buffer holds buffer_alloc bytes
InitMessageBuffer == [nb_bytes_read |-> 0, message_size |-> 0, buffer |-> <<>>]

InitStream ==
    [state |-> "idle", is_datagram |-> FALSE,
     start_group_id |-> 0, start_object_id |-> 0,
     final_group_id |-> 0, final_object_id |-> 0,
     next_object_id |-> 0, next_object_offset |-> 0,
     is_final_object_id_sent |-> FALSE,
     horizon_object_id |-> UINT64_MAX, horizon_offset |-> UINT64_MAX,
     horizon_is_last_fragment |-> TRUE,
     datagram_ack_tree |-> <<>>, nb_horizon_events |-> 0,
     skipped |-> {},
     is_active_datagram |-> FALSE,
     media_ctx |-> InitMediaCtx]

\* quicrq_fragment_cache_get_fragment: picosplay_find returns a record with
\* the key; when several records carry it, which one depends on the shape
\* of the splay, so pick chooses among them.
quicrq_fragment_cache_get_fragment(tree, group_id, object_id, offset, pick) ==
    LET found == {i \in 1..Len(tree) : /\ tree[i].group_id = group_id
                                       /\ tree[i].object_id = object_id
                                       /\ tree[i].offset = offset}
        rank == (pick % Cardinality(found)) + 1
    IN IF found = {} THEN NULL
       ELSE tree[CHOOSE i \in found :
                    Cardinality({j \in found : j <= i}) = rank].ptr

\* size_t subtraction: the difference wraps below zero
SizeSub(a, b) == IF a >= b THEN a - b ELSE UINT64_MAX - (b - a) + 1

\* What a read through current_fragment returns: the record, or, when the
\* record was freed under the reader, whatever the heap block holds by now.
ZeroFragment ==
    [ptr |-> NULL, group_id |-> 0, object_id |-> 0, offset |-> 0, cache_time |-> 0,
     flags |-> 0,
     nb_objects_previous_group |-> 0, is_last_fragment |-> FALSE, data_length |-> 0,
     data |-> <<>>, previous_in_order |-> NULL, next_in_order |-> NULL]

IsDangling(tree, ptr) == ptr # NULL /\ NodeIndex(tree, ptr) = 0

StaleFragments(tree, ptr) ==
    IF IsDangling(tree, ptr)
    THEN {ZeroFragment} \cup {tree[i] : i \in 1..Len(tree)}
    ELSE {ZeroFragment}

Deref(tree, ptr, stale) ==
    IF NodeIndex(tree, ptr) # 0 THEN Fragment(tree, ptr) ELSE stale

(***************************************************************************)
(* quicrq_fragment_publisher_fn, action quicrq_media_source_get_data with  *)
(* a buffer: the in-sequence (stream mode) reader.                         *)
(***************************************************************************)
\* lines 645-693: find the current fragment
PublisherFindFragment(m, c, pick) ==
    LET tree == c.fragment_tree
        next_group_fragment_ptr ==
            quicrq_fragment_cache_get_fragment(tree, m.current_group_id + 1, 0, 0, pick)
        next_group_fragment == Fragment(tree, next_group_fragment_ptr)
        next_group == [m EXCEPT !.current_group_id = @ + 1,
                                !.current_object_id = 0,
                                !.current_offset = 0,
                                !.is_current_object_skipped = FALSE,
                                !.current_fragment = next_group_fragment_ptr]
    IN IF m.is_current_object_skipped
       THEN LET next_object == quicrq_fragment_cache_get_fragment(
                                   tree, m.current_group_id, m.current_object_id + 1, 0, pick)
            IN IF next_object # NULL
               THEN [m |-> [m EXCEPT !.current_fragment = next_object,
                                     !.current_object_id = @ + 1,
                                     !.current_offset = 0,
                                     !.is_current_object_skipped = FALSE],
                     is_new_group |-> FALSE]
               ELSE IF /\ next_group_fragment_ptr # NULL
                       /\ m.current_object_id + 1 >= next_group_fragment.nb_objects_previous_group
                    THEN [m |-> next_group, is_new_group |-> TRUE]
                    ELSE [m |-> [m EXCEPT !.current_fragment = NULL], is_new_group |-> FALSE]
       ELSE IF m.current_fragment = NULL
            THEN LET expected == quicrq_fragment_cache_get_fragment(
                                     tree, m.current_group_id, m.current_object_id,
                                     m.current_offset, pick)
                 IN IF /\ expected = NULL
                       /\ m.current_offset = 0
                       /\ next_group_fragment_ptr # NULL
                       /\ m.current_object_id >= next_group_fragment.nb_objects_previous_group
                    THEN [m |-> next_group, is_new_group |-> TRUE]
                    ELSE [m |-> [m EXCEPT !.current_fragment = expected],
                          is_new_group |-> FALSE]
            ELSE [m |-> m, is_new_group |-> FALSE]

\* what get_data returns when it has nothing to send
NothingToSend(m) ==
    [m |-> m, data_length |-> 0, data |-> <<>>, is_new_group |-> FALSE,
     is_last_fragment |-> FALSE, is_media_finished |-> FALSE, is_still_active |-> FALSE,
     group_id |-> 0, object_id |-> 0, offset |-> 0]

\* lines 694-740: copy from the current fragment and move the cursor
PublisherCopy(m1, is_new_group, c, data_max_size, has_buffer, stale) ==
    IF m1.current_fragment = NULL
    THEN [NothingToSend(m1) EXCEPT !.is_new_group = is_new_group]
    ELSE
      LET current_fragment == Deref(c.fragment_tree, m1.current_fragment, stale)
          available == SizeSub(current_fragment.data_length, m1.length_sent)
          end_of_fragment == data_max_size >= available
          copied == IF end_of_fragment THEN available ELSE data_max_size
          has_backlog ==
              IF m1.current_offset > 0 THEN m1.has_backlog
              ELSE \/ m1.current_group_id < c.next_group_id
                   \/ /\ m1.current_group_id = c.next_group_id
                      /\ m1.current_object_id + 1 < c.next_object_id
          m0 == [m1 EXCEPT !.has_backlog = has_backlog]
          m2 == [m0 EXCEPT !.length_sent = IF end_of_fragment THEN 0 ELSE @ + copied,
                           !.current_object_id =
                               IF end_of_fragment /\ current_fragment.is_last_fragment
                               THEN @ + 1 ELSE @,
                           !.current_offset =
                               IF ~end_of_fragment THEN @
                               ELSE IF current_fragment.is_last_fragment THEN 0
                               ELSE @ + current_fragment.data_length,
                           !.current_fragment = IF end_of_fragment THEN NULL ELSE @]
      IN [m |-> IF has_buffer THEN m2 ELSE m0,
          group_id |-> m1.current_group_id,
          object_id |-> m1.current_object_id,
          offset |-> m1.current_offset + m1.length_sent,
          data_length |-> copied,
          data |-> [i \in 1..copied |->
                      IF m1.length_sent + i <= Len(current_fragment.data)
                      THEN current_fragment.data[m1.length_sent + i]
                      ELSE -1],
          is_new_group |-> is_new_group,
          is_last_fragment |-> end_of_fragment /\ current_fragment.is_last_fragment,
          is_media_finished |-> FALSE,
          is_still_active |-> TRUE]

\* has_buffer: data is not NULL
quicrq_fragment_publisher_fn(m, c, data_max_size, has_buffer, pick, stale) ==
    IF /\ (c.final_group_id # 0 \/ c.final_object_id # 0)
       /\ \/ m.current_group_id > c.final_group_id
          \/ /\ m.current_group_id = c.final_group_id
             /\ m.current_object_id >= c.final_object_id
    THEN [NothingToSend(m) EXCEPT !.is_media_finished = TRUE]
    ELSE CHOOSE r \in {PublisherCopy(found.m, found.is_new_group, c, data_max_size,
                                      has_buffer, stale) :
                         found \in {PublisherFindFragment(m, c, pick)}} : TRUE

(***************************************************************************)
(* The ack tracker of a datagram stream: datagram_ack_tree is the sequence *)
(* of the ack records in (object_id, object_offset) order.                 *)
(***************************************************************************)
\* (int64_t)(a - b) on uint64_t operands
Int64Diff(a, b) ==
    (IF a = UINT64_MAX THEN -1 ELSE a) - (IF b = UINT64_MAX THEN -1 ELSE b)

quicrq_datagram_ack_node_compare(l, r) ==
    LET d == Int64Diff(l.object_id, r.object_id)
    IN IF d = 0 THEN l.object_offset - r.object_offset ELSE d

\* index of the record with the key, 0 when there is none
quicrq_datagram_ack_find(st, object_id, object_offset) ==
    LET target == [object_id |-> object_id, object_offset |-> object_offset]
        found == {i \in 1..Len(st.datagram_ack_tree) :
                     quicrq_datagram_ack_node_compare(st.datagram_ack_tree[i], target) = 0}
    IN IF found = {} THEN 0 ELSE CHOOSE i \in found : TRUE

quicrq_datagram_check_horizon(st, object_id, object_offset) ==
    LET d == Int64Diff(object_id, st.horizon_object_id)
    IN IF d = 0 THEN Int64Diff(object_offset, st.horizon_offset) ELSE d

\* quicrq_datagram_ack_init without the check of the horizon
ack_init_ignores_horizon(st, object_id, object_offset, length, is_last_fragment) ==
    IF quicrq_datagram_ack_find(st, object_id, object_offset) # 0
    THEN [st |-> st, ret |-> 1, created |-> FALSE]
    ELSE LET da_new == [object_id |-> object_id, object_offset |-> object_offset,
                        length |-> length, is_last_fragment |-> is_last_fragment,
                        is_acked |-> FALSE, fec_needed |-> FALSE, last_sent_time |-> 0]
             n == Cardinality({i \in 1..Len(st.datagram_ack_tree) :
                      quicrq_datagram_ack_node_compare(st.datagram_ack_tree[i], da_new) < 0})
         IN [st |-> [st EXCEPT !.datagram_ack_tree =
                        SubSeq(@, 1, n) \o <<da_new>> \o SubSeq(@, n + 1, Len(@))],
             ret |-> 0, created |-> TRUE]

\* created: the record was made (p_created_state is set)
quicrq_datagram_ack_init(st, object_id, object_offset, length, is_last_fragment) ==
    IF quicrq_datagram_check_horizon(st, object_id, object_offset) < 0
    THEN [st |-> [st EXCEPT !.nb_horizon_events = @ + 1], ret |-> 0, created |-> FALSE]
    ELSE IF quicrq_datagram_ack_find(st, object_id, object_offset) # 0
    THEN [st |-> st, ret |-> 1, created |-> FALSE]
    ELSE LET da_new == [object_id |-> object_id, object_offset |-> object_offset,
                        length |-> length, is_last_fragment |-> is_last_fragment,
                        is_acked |-> FALSE, fec_needed |-> FALSE, last_sent_time |-> 0]
             n == Cardinality({i \in 1..Len(st.datagram_ack_tree) :
                      quicrq_datagram_ack_node_compare(st.datagram_ack_tree[i], da_new) < 0})
         IN [st |-> [st EXCEPT !.datagram_ack_tree =
                        SubSeq(@, 1, n) \o <<da_new>> \o SubSeq(@, n + 1, Len(@))],
             ret |-> 0, created |-> TRUE]

\* lines 1736-1762: collapse the acknowledged records that continue the horizon
RECURSIVE HorizonLoop(_)
HorizonLoop(st) ==
    IF st.datagram_ack_tree = <<>> THEN st
    ELSE LET das == st.datagram_ack_tree[1]
             just_after ==
                 IF st.horizon_is_last_fragment
                 THEN /\ Int64Diff(das.object_id, st.horizon_object_id) = 1
                      /\ das.object_offset = 0
                 ELSE /\ das.object_id = st.horizon_object_id
                      /\ das.object_offset = st.horizon_offset
         IN IF ~das.is_acked \/ ~just_after THEN st
            ELSE CHOOSE r \in {HorizonLoop(v) : v \in
                     {[st EXCEPT !.horizon_object_id = das.object_id,
                                 !.horizon_offset = das.object_offset + das.length,
                                 !.horizon_is_last_fragment = das.is_last_fragment,
                                 !.datagram_ack_tree = Tail(@)]}} : TRUE

quicrq_datagram_handle_ack(st, object_id, object_offset) ==
    LET found == quicrq_datagram_ack_find(st, object_id, object_offset)
    IN IF found = 0 THEN st
       ELSE LET st1 == [st EXCEPT !.datagram_ack_tree[found].is_acked = TRUE]
            IN IF quicrq_datagram_check_horizon(st, object_id, object_offset) <= 1
               THEN CHOOSE r \in {HorizonLoop(v) : v \in {st1}} : TRUE
               ELSE st1

\* quicrq_datagram_handle_repeat: queue the lost bytes again, in pieces of at
\* most room bytes (PICOQUIC_DATAGRAM_QUEUE_MAX_LENGTH less the header);
\* lost is the datagram reported, whose header fields the pieces repeat.
\* null_record: the record of the next piece is used though none was made.
RECURSIVE RepeatLoop(_, _, _, _, _, _, _)
RepeatLoop(st, found, data, room, lost, now, queued) ==
    IF data = <<>> \/ found = 0
    THEN [st |-> st, ret |-> 0, queued |-> queued, null_record |-> FALSE]
    ELSE
      LET record == st.datagram_ack_tree[found]
          data_length == Len(data)
          split == data_length > room
          fragment_length == IF split THEN room ELSE data_length
          datagram == [group_id |-> lost.group_id,
                       object_id |-> record.object_id,
                       offset |-> record.object_offset,
                       flags |-> lost.flags,
                       nb_objects_previous_group |-> lost.nb_objects_previous_group,
                       is_last_fragment |-> ~split /\ record.is_last_fragment,
                       data |-> SubSeq(data, 1, fragment_length)]
          st1 == [st EXCEPT !.datagram_ack_tree[found].last_sent_time = now]
          next_offset == record.object_offset + fragment_length
      IN IF ~split
         THEN [st |-> st1, ret |-> 0, queued |-> Append(queued, datagram),
               null_record |-> FALSE]
         ELSE
           LET init == quicrq_datagram_ack_init(st1, record.object_id, next_offset,
                                                data_length - fragment_length,
                                                record.is_last_fragment)
               next_record == quicrq_datagram_ack_find(init.st, record.object_id, next_offset)
               old_record == quicrq_datagram_ack_find(init.st, record.object_id,
                                                      record.object_offset)
               st2 == [init.st EXCEPT
                          !.datagram_ack_tree[next_record].is_last_fragment =
                              record.is_last_fragment,
                          !.datagram_ack_tree[next_record].fec_needed = record.fec_needed,
                          !.datagram_ack_tree[old_record].is_last_fragment = FALSE,
                          !.datagram_ack_tree[old_record].length = fragment_length]
           IN IF init.ret # 0
              THEN [st |-> init.st, ret |-> init.ret,
                    queued |-> Append(queued, datagram), null_record |-> FALSE]
              ELSE IF ~init.created
              THEN [st |-> init.st, ret |-> 0,
                    queued |-> Append(queued, datagram), null_record |-> TRUE]
              ELSE CHOOSE r \in
                       {RepeatLoop(v, next_record, SubSeq(data, fragment_length + 1, data_length),
                                   room, lost, now, Append(queued, datagram)) :
                            v \in {st2}} : TRUE

quicrq_datagram_handle_repeat(st, found, data, room, lost, now) ==
    RepeatLoop(st, found, data, room, lost, now, <<>>)

quicrq_datagram_handle_lost(st, lost, room, now) ==
    LET found == quicrq_datagram_ack_find(st, lost.object_id, lost.offset)
    IN IF /\ found # 0
          /\ ~st.datagram_ack_tree[found].is_acked
          /\ st.datagram_ack_tree[found].last_sent_time <= lost.sent_time + RepeatGuardTime
       THEN CHOOSE r \in
                {quicrq_datagram_handle_repeat(v, found, lost.data, room, lost, now) :
                    v \in {[st EXCEPT !.datagram_ack_tree[found].fec_needed = TRUE]}} : TRUE
       ELSE [st |-> st, ret |-> 0, queued |-> <<>>, null_record |-> FALSE]

(***************************************************************************)
(* The datagram mode reader: publisher_object_tree is the sequence of the  *)
(* object states in (group_id, object_id) order.                           *)
(***************************************************************************)
quicrq_fragment_publisher_object_get(object_tree, group_id, object_id) ==
    IF \E i \in 1..Len(object_tree) : /\ object_tree[i].group_id = group_id
                                      /\ object_tree[i].object_id = object_id
    THEN CHOOSE i \in 1..Len(object_tree) : /\ object_tree[i].group_id = group_id
                                            /\ object_tree[i].object_id = object_id
    ELSE 0

quicrq_fragment_publisher_object_add(object_tree, group_id, object_id) ==
    LET publisher_object == [group_id |-> group_id, object_id |-> object_id,
                             bytes_sent |-> 0, final_offset |-> 0,
                             nb_objects_previous_group |-> 0,
                             is_dropped |-> FALSE, is_sent |-> FALSE]
        n == Cardinality({i \in 1..Len(object_tree) :
                 \/ object_tree[i].group_id < group_id
                 \/ /\ object_tree[i].group_id = group_id
                    /\ object_tree[i].object_id <= object_id})
    IN SubSeq(object_tree, 1, n) \o <<publisher_object>>
           \o SubSeq(object_tree, n + 1, Len(object_tree))

RECURSIVE quicrq_fragment_datagram_publisher_object_prune(_)
quicrq_fragment_datagram_publisher_object_prune(object_tree) ==
    IF Len(object_tree) < 2 \/ ~object_tree[1].is_sent THEN object_tree
    ELSE LET first_object == object_tree[1]
             next_object == object_tree[2]
         IN IF \/ /\ next_object.group_id = first_object.group_id
                  /\ next_object.object_id = first_object.object_id + 1
               \/ /\ next_object.group_id = first_object.group_id + 1
                  /\ next_object.object_id = 0
                  /\ next_object.nb_objects_previous_group = first_object.object_id + 1
            THEN quicrq_fragment_datagram_publisher_object_prune(Tail(object_tree))
            ELSE object_tree

quicrq_fragment_datagram_publisher_object_update(m, current_fragment, should_skip, is_last_fragment, next_offset, copied) ==
    LET known == quicrq_fragment_publisher_object_get(
                     m.publisher_object_tree, current_fragment.group_id,
                     current_fragment.object_id)
        tree1 == IF known # 0 THEN m.publisher_object_tree
                 ELSE quicrq_fragment_publisher_object_add(
                          m.publisher_object_tree, current_fragment.group_id,
                          current_fragment.object_id)
        i == quicrq_fragment_publisher_object_get(
                 tree1, current_fragment.group_id, current_fragment.object_id)
        o1 == [tree1[i] EXCEPT
                  !.bytes_sent = @ + copied,
                  !.final_offset = IF is_last_fragment THEN next_offset ELSE @,
                  !.is_dropped = should_skip,
                  !.nb_objects_previous_group =
                      IF current_fragment.nb_objects_previous_group > 0
                      THEN current_fragment.nb_objects_previous_group ELSE @]
        fully_sent == \/ is_last_fragment /\ copied >= next_offset
                      \/ o1.final_offset > 0 /\ o1.bytes_sent >= o1.final_offset
        tree2 == [tree1 EXCEPT ![i] = [o1 EXCEPT !.is_sent = @ \/ fully_sent]]
    IN CHOOSE r \in
           {[m EXCEPT !.publisher_object_tree =
                         IF fully_sent
                         THEN quicrq_fragment_datagram_publisher_object_prune(v)
                         ELSE v] : v \in {tree2}} : TRUE

\* quicrq_fragment_datagram_publisher_object_eval without the test of the
\* object id
object_eval_any_object(current_fragment, congested) ==
    /\ current_fragment.data_length > 0
    /\ congested

\* quicrq_fragment_datagram_publisher_object_eval: should_skip is the verdict
\* of the congestion check, an input (congested).
quicrq_fragment_datagram_publisher_object_eval(current_fragment, congested) ==
    /\ current_fragment.object_id # 0
    /\ current_fragment.data_length > 0
    /\ congested

\* lines 808-839: move along the arrival list to the next fragment to send
RECURSIVE CheckFragmentLoop(_, _, _, _)
CheckFragmentLoop(m, tree, congested, stale) ==
    LET here == Deref(tree, m.current_fragment, stale)
    IN IF here.next_in_order = NULL THEN [m |-> m, should_skip |-> FALSE]
       ELSE
         LET current_fragment == Deref(tree, here.next_in_order, stale)
             m1 == [m EXCEPT !.length_sent = 0,
                             !.is_current_fragment_sent = FALSE,
                             !.current_fragment = here.next_in_order]
             publisher_object == quicrq_fragment_publisher_object_get(
                                     m.publisher_object_tree, current_fragment.group_id,
                                     current_fragment.object_id)
             before_first ==
                 /\ Len(m.publisher_object_tree) > 0
                 /\ \/ m.publisher_object_tree[1].group_id > current_fragment.group_id
                    \/ /\ m.publisher_object_tree[1].group_id = current_fragment.group_id
                       /\ m.publisher_object_tree[1].object_id > current_fragment.object_id
             passed == [m1 EXCEPT !.is_current_fragment_sent = TRUE]
         IN IF publisher_object = 0
            THEN IF before_first
                 THEN CHOOSE r \in {CheckFragmentLoop(v, tree, congested, stale) :
                                       v \in {passed}} : TRUE
                 ELSE [m |-> m1,
                       should_skip |-> quicrq_fragment_datagram_publisher_object_eval(
                                           current_fragment, congested)]
            ELSE IF m.publisher_object_tree[publisher_object].is_dropped
                 THEN CHOOSE r \in {CheckFragmentLoop(v, tree, congested, stale) :
                                       v \in {passed}} : TRUE
                 ELSE [m |-> m1, should_skip |-> FALSE]

quicrq_fragment_datagram_publisher_check_fragment(m, c, congested, stale) ==
    LET m1 == IF m.current_fragment = NULL
              THEN [m EXCEPT !.current_fragment = c.first_fragment] ELSE m
    IN IF m1.current_fragment # NULL /\ m1.is_current_fragment_sent
       THEN CHOOSE r \in {CheckFragmentLoop(v, c.fragment_tree, congested, stale) :
                             v \in {m1}} : TRUE
       ELSE [m |-> m1, should_skip |-> FALSE]

\* the is_last_fragment bit with no reset when the budget cuts the fragment
last_bit_survives_cut(should_skip, cut, current_fragment) ==
    should_skip \/ current_fragment.is_last_fragment

\* lines 942, 970-974: the is_last_fragment bit of the datagram; cut: the
\* fragment has data and the space left is less than what is available
DatagramLastBit(should_skip, cut, current_fragment) ==
    IF should_skip THEN TRUE
    ELSE IF cut THEN FALSE
    ELSE current_fragment.is_last_fragment

\* payload is space - h_size, the room left after the datagram header
quicrq_fragment_datagram_publisher_send_fragment(st, m, c, payload, should_skip, stale) ==
    LET current_fragment == Deref(c.fragment_tree, m.current_fragment, stale)
        offset == IF should_skip THEN 0 ELSE current_fragment.offset + m.length_sent
        flags == IF should_skip THEN SkipFlags ELSE current_fragment.flags
        has_data == ~should_skip /\ current_fragment.data_length > 0
        available == SizeSub(current_fragment.data_length, m.length_sent)
        copied == IF ~has_data THEN 0
                  ELSE IF payload >= available THEN available ELSE payload
        is_last_fragment ==
            DatagramLastBit(should_skip, has_data /\ payload < available, current_fragment)
        length_sent == m.length_sent + copied
        m1 == [m EXCEPT !.length_sent = length_sent,
                        !.is_current_fragment_sent =
                            @ \/ should_skip \/ length_sent >= current_fragment.data_length]
        datagram == [group_id |-> current_fragment.group_id,
                     object_id |-> current_fragment.object_id,
                     offset |-> offset,
                     flags |-> flags,
                     nb_objects_previous_group |-> current_fragment.nb_objects_previous_group,
                     is_last_fragment |-> is_last_fragment,
                     data |-> [i \in 1..copied |->
                                 IF m.length_sent + i <= Len(current_fragment.data)
                                 THEN current_fragment.data[m.length_sent + i]
                                 ELSE -1]]
    IN IF copied > 0 \/ should_skip \/ current_fragment.data_length = 0
       THEN CHOOSE r \in
                {[st |-> ack.st,
                  m |-> IF ack.ret = 0
                        THEN quicrq_fragment_datagram_publisher_object_update(
                                 m1, current_fragment, should_skip, is_last_fragment,
                                 offset + copied, copied)
                        ELSE m1,
                  ret |-> ack.ret,
                  media_was_sent |-> TRUE,
                  datagram |-> datagram] :
                    ack \in {quicrq_datagram_ack_init(
                                 st, current_fragment.object_id, offset, copied,
                                 is_last_fragment)}} : TRUE
       ELSE [st |-> st, m |-> m, ret |-> 0, media_was_sent |-> FALSE,
             datagram |-> datagram]

\* lines 1051-1060 and 1082-1100, after check_fragment
DatagramPrepare(st, checked, c, payload, stale) ==
    LET m1 == checked.m
        not_ready == m1.current_fragment = NULL \/ m1.is_current_fragment_sent
        finished == /\ (c.final_group_id # 0 \/ c.final_object_id # 0)
                    /\ m1.current_fragment # NULL
                    /\ m1.is_current_fragment_sent
                    /\ Deref(c.fragment_tree, m1.current_fragment, stale).next_in_order = NULL
    IN IF not_ready
       THEN [st |-> [st EXCEPT !.media_ctx = m1,
                       !.final_group_id = IF finished THEN c.final_group_id ELSE @,
                       !.final_object_id = IF finished THEN c.final_object_id ELSE @,
                       !.is_active_datagram = IF finished THEN FALSE ELSE @],
             media_was_sent |-> FALSE, should_skip |-> FALSE, datagram |-> <<>>]
       ELSE CHOOSE r \in
                {[st |-> [s.st EXCEPT !.media_ctx = s.m],
                  media_was_sent |-> s.media_was_sent,
                  should_skip |-> checked.should_skip,
                  datagram |-> s.datagram] :
                    s \in {quicrq_fragment_datagram_publisher_send_fragment(
                               st, m1, c, payload, checked.should_skip, stale)}} : TRUE

\* quicrq_fragment_datagram_publisher_prepare inside
\* quicrq_fragment_datagram_publisher_fn, on the stream record st
quicrq_fragment_datagram_publisher_fn(st, c, payload, congested, stale) ==
    CHOOSE r \in {DatagramPrepare(st, checked, c, payload, stale) :
                    checked \in {quicrq_fragment_datagram_publisher_check_fragment(
                                    st.media_ctx, c, congested, stale)}} : TRUE

(***************************************************************************)
(* Inputs of propose.                                                      *)
(***************************************************************************)
\* the bytes of a proposal, each named by its position in the object
ObjectBytes(offset, data_length) == [i \in 1..data_length |-> offset + i - 1]

ProposalInputs ==
    {[group_id |-> g, object_id |-> o, offset |-> off, data_length |-> len,
      is_last_fragment |-> last, nb_objects_previous_group |-> nbp, flags |-> 0] :
        g \in 0..MaxGroup, o \in 0..MaxObject, off \in 0..MaxEnd, len \in 0..MaxEnd,
        last \in BOOLEAN, nbp \in 0..(MaxObject + 1)}

ValidProposal(x) ==
    /\ x.offset + x.data_length <= MaxEnd
    /\ (x.nb_objects_previous_group # 0 => x.object_id = 0 /\ x.offset = 0 /\ x.group_id > 0)

\* the fragments of the published media: objects of ObjectLength bytes, the
\* first fragment of a later group announcing the object count of the group
\* before it
MediaFragments ==
    {[group_id |-> g, object_id |-> o, offset |-> off, data_length |-> len,
      is_last_fragment |-> (off + len = ObjectLength),
      nb_objects_previous_group |-> IF g > 0 /\ o = 0 /\ off = 0 THEN MaxObject + 1 ELSE 0,
      flags |-> 0] :
        g \in 0..MaxGroup, o \in 0..MaxObject,
        off \in 0..(ObjectLength - 1), len \in 1..ObjectLength}

ValidMediaFragment(x) == x.offset + x.data_length <= ObjectLength

(***************************************************************************)
(* The receive side of a control stream: quicrq_receive_stream_data.  A    *)
(* call brings the messages that quicrq_msg_buffer_store completes, back   *)
(* to back.                                                                *)
(***************************************************************************)
QUICRQ_ACTION_OPEN_STREAM == 1
QUICRQ_ACTION_OPEN_DATAGRAM == 2
QUICRQ_ACTION_FIN_DATAGRAM == 3
QUICRQ_ACTION_REQUEST_REPAIR == 4
QUICRQ_ACTION_REPAIR == 5
QUICRQ_ACTION_POST == 6
QUICRQ_ACTION_ACCEPT == 7
UnknownAction == 8      \* a message type quicrq_msg_decode accepts no case for
quicrq_consumer_finished == 1

(***************************************************************************)
(* Protocol framing: the control messages and their encoding.  Bytes are   *)
(* numbers 0..255, a buffer is a sequence of bytes.                        *)
(***************************************************************************)
\* the script of a decoder that ran out of bytes or met a bad field
DecodeFailure == [ok |-> FALSE, value |-> 0, rest |-> <<>>]

\* varint, 1/2/4/8 bytes: the two high bits of the first byte name the class
VarintEncode(v) ==
    IF v < 64 THEN <<v>>
    ELSE IF v < 16384 THEN <<64 + (v \div 256), v % 256>>
    ELSE IF v < 1073741824
    THEN <<128 + (v \div 16777216), (v \div 65536) % 256, (v \div 256) % 256, v % 256>>
    ELSE <<192, 0, 0, 0,
           v \div 16777216, (v \div 65536) % 256, (v \div 256) % 256, v % 256>>

\* the value stays in the model's range while the first four bytes of the
\* eight byte class carry nothing; UINT64_MAX stands for every value beyond
VarintDecode(bytes) ==
    IF Len(bytes) = 0 THEN DecodeFailure
    ELSE LET class == bytes[1] \div 64
             first == bytes[1] % 64
             length == IF class = 0 THEN 1 ELSE IF class = 1 THEN 2
                       ELSE IF class = 2 THEN 4 ELSE 8
         IN IF Len(bytes) < length THEN DecodeFailure
            ELSE [ok |-> TRUE,
                  value |->
                    IF class = 0 THEN first
                    ELSE IF class = 1 THEN first * 256 + bytes[2]
                    ELSE IF class = 2
                    THEN first * 16777216 + bytes[2] * 65536 + bytes[3] * 256 + bytes[4]
                    ELSE IF first = 0 /\ bytes[2] = 0 /\ bytes[3] = 0 /\ bytes[4] = 0
                            /\ bytes[5] < 128
                    THEN bytes[5] * 16777216 + bytes[6] * 65536 + bytes[7] * 256 + bytes[8]
                    ELSE UINT64_MAX,
                  rest |-> SubSeq(bytes, length + 1, Len(bytes))]

\* quicrq_message_t, zeroed
NullMessage ==
    [message_type |-> 0, url |-> <<>>, datagram_stream_id |-> 0, final_object_id |-> 0,
     object_id |-> 0, offset |-> 0, is_last_fragment |-> FALSE, length |-> 0,
     data |-> <<>>]

\* length bytes of the buffer, or failure when the buffer holds fewer
BytesDecode(bytes, length) ==
    IF Len(bytes) < length THEN DecodeFailure
    ELSE [ok |-> TRUE, value |-> SubSeq(bytes, 1, length),
          rest |-> SubSeq(bytes, length + 1, Len(bytes))]

\* OPEN_STREAM, POST: url length, url.  OPEN_DATAGRAM: and datagram_stream_id
quicrq_rq_msg_encode(msg) ==
    VarintEncode(msg.message_type) \o VarintEncode(Len(msg.url)) \o msg.url
    \o (IF msg.message_type = QUICRQ_ACTION_OPEN_DATAGRAM
        THEN VarintEncode(msg.datagram_stream_id) ELSE <<>>)

quicrq_rq_msg_decode(message_type, bytes) ==
    LET url_length == VarintDecode(bytes)
        url == BytesDecode(url_length.rest, url_length.value)
        datagram_stream_id == VarintDecode(url.rest)
    IN IF ~url_length.ok \/ ~url.ok THEN DecodeFailure
       ELSE IF message_type # QUICRQ_ACTION_OPEN_DATAGRAM
       THEN [ok |-> TRUE,
             value |-> [NullMessage EXCEPT !.message_type = message_type,
                                           !.url = url.value],
             rest |-> url.rest]
       ELSE IF ~datagram_stream_id.ok THEN DecodeFailure
       ELSE [ok |-> TRUE,
             value |-> [NullMessage EXCEPT !.message_type = message_type,
                                           !.url = url.value,
                                           !.datagram_stream_id = datagram_stream_id.value],
             rest |-> datagram_stream_id.rest]

\* FIN_DATAGRAM: final_object_id
quicrq_fin_msg_encode(msg) ==
    VarintEncode(msg.message_type) \o VarintEncode(msg.final_object_id)

quicrq_fin_msg_decode(message_type, bytes) ==
    LET final_object_id == VarintDecode(bytes)
    IN IF ~final_object_id.ok THEN DecodeFailure
       ELSE [ok |-> TRUE,
             value |-> [NullMessage EXCEPT !.message_type = message_type,
                                           !.final_object_id = final_object_id.value],
             rest |-> final_object_id.rest]

\* REQUEST_REPAIR: final_object_id, object_id
quicrq_repair_request_encode(msg) ==
    VarintEncode(msg.message_type) \o VarintEncode(msg.final_object_id)
    \o VarintEncode(msg.object_id)

quicrq_repair_request_decode(message_type, bytes) ==
    LET final_object_id == VarintDecode(bytes)
        object_id == VarintDecode(final_object_id.rest)
    IN IF ~final_object_id.ok \/ ~object_id.ok THEN DecodeFailure
       ELSE [ok |-> TRUE,
             value |-> [NullMessage EXCEPT !.message_type = message_type,
                                           !.final_object_id = final_object_id.value,
                                           !.object_id = object_id.value],
             rest |-> object_id.rest]

\* REPAIR: object_id, offset, the length with the last fragment flag as its
\* low bit, the bytes
quicrq_repair_msg_encode(msg) ==
    VarintEncode(msg.message_type) \o VarintEncode(msg.object_id)
    \o VarintEncode(msg.offset)
    \o VarintEncode(2 * msg.length + (IF msg.is_last_fragment THEN 1 ELSE 0))
    \o msg.data

\* the same, the flag bit left in the length
repair_decode_keeps_flag_in_length(message_type, bytes) ==
    LET object_id == VarintDecode(bytes)
        offset == VarintDecode(object_id.rest)
        length == VarintDecode(offset.rest)
        data == BytesDecode(length.rest, length.value)
    IN IF ~object_id.ok \/ ~offset.ok \/ ~length.ok \/ ~data.ok THEN DecodeFailure
       ELSE [ok |-> TRUE,
             value |-> [NullMessage EXCEPT !.message_type = message_type,
                                           !.object_id = object_id.value,
                                           !.offset = offset.value,
                                           !.is_last_fragment = (length.value % 2 = 1),
                                           !.length = length.value,
                                           !.data = data.value],
             rest |-> data.rest]

quicrq_repair_msg_decode(message_type, bytes) ==
    LET object_id == VarintDecode(bytes)
        offset == VarintDecode(object_id.rest)
        length == VarintDecode(offset.rest)
        data == BytesDecode(length.rest, length.value \div 2)
    IN IF ~object_id.ok \/ ~offset.ok \/ ~length.ok \/ ~data.ok THEN DecodeFailure
       ELSE [ok |-> TRUE,
             value |-> [NullMessage EXCEPT !.message_type = message_type,
                                           !.object_id = object_id.value,
                                           !.offset = offset.value,
                                           !.is_last_fragment = (length.value % 2 = 1),
                                           !.length = length.value \div 2,
                                           !.data = data.value],
             rest |-> data.rest]

\* ACCEPT: datagram_stream_id
quicrq_accept_msg_encode(msg) ==
    VarintEncode(msg.message_type) \o VarintEncode(msg.datagram_stream_id)

quicrq_accept_msg_decode(message_type, bytes) ==
    LET datagram_stream_id == VarintDecode(bytes)
    IN IF ~datagram_stream_id.ok THEN DecodeFailure
       ELSE [ok |-> TRUE,
             value |-> [NullMessage EXCEPT !.message_type = message_type,
                                           !.datagram_stream_id = datagram_stream_id.value],
             rest |-> datagram_stream_id.rest]

quicrq_msg_encode(msg) ==
    IF msg.message_type \in {QUICRQ_ACTION_OPEN_STREAM, QUICRQ_ACTION_OPEN_DATAGRAM,
                             QUICRQ_ACTION_POST}
    THEN quicrq_rq_msg_encode(msg)
    ELSE IF msg.message_type = QUICRQ_ACTION_FIN_DATAGRAM THEN quicrq_fin_msg_encode(msg)
    ELSE IF msg.message_type = QUICRQ_ACTION_REQUEST_REPAIR
    THEN quicrq_repair_request_encode(msg)
    ELSE IF msg.message_type = QUICRQ_ACTION_REPAIR THEN quicrq_repair_msg_encode(msg)
    ELSE quicrq_accept_msg_encode(msg)

\* the message type is read first and names the decoder of the rest
quicrq_msg_decode(bytes) ==
    LET message_type == VarintDecode(bytes)
        t == message_type.value
    IN IF ~message_type.ok THEN DecodeFailure
       ELSE IF t \in {QUICRQ_ACTION_OPEN_STREAM, QUICRQ_ACTION_OPEN_DATAGRAM,
                      QUICRQ_ACTION_POST}
       THEN quicrq_rq_msg_decode(t, message_type.rest)
       ELSE IF t = QUICRQ_ACTION_FIN_DATAGRAM
       THEN quicrq_fin_msg_decode(t, message_type.rest)
       ELSE IF t = QUICRQ_ACTION_REQUEST_REPAIR
       THEN quicrq_repair_request_decode(t, message_type.rest)
       ELSE IF t = QUICRQ_ACTION_REPAIR
       THEN quicrq_repair_msg_decode(t, message_type.rest)
       ELSE IF t = QUICRQ_ACTION_ACCEPT
       THEN quicrq_accept_msg_decode(t, message_type.rest)
       ELSE DecodeFailure

(***************************************************************************)
(* The control stream context and the messages it receives.                *)
(***************************************************************************)
\* quicrq_create_stream_context: the context is zeroed
InitControl ==
    [receive_state |-> "quicrq_receive_initial",
     send_state |-> "quicrq_sending_ready",
     final_object_id |-> 0,
     is_datagram |-> FALSE,
     is_sender |-> FALSE,
     is_peer_finished |-> FALSE,
     is_local_finished |-> FALSE,
     is_deleted |-> FALSE]

\* the messages a peer may send: the fields the receive side reads
ControlMessages ==
    {[message_type |-> t, object_id |-> 0, use_datagram |-> FALSE] :
        t \in {QUICRQ_ACTION_OPEN_STREAM, QUICRQ_ACTION_OPEN_DATAGRAM,
               QUICRQ_ACTION_REQUEST_REPAIR, UnknownAction}}
    \cup {[message_type |-> t, object_id |-> o, use_datagram |-> FALSE] :
        t \in {QUICRQ_ACTION_FIN_DATAGRAM, QUICRQ_ACTION_REPAIR}, o \in 0..MaxObject}
    \cup {[message_type |-> t, object_id |-> 0, use_datagram |-> d] :
        t \in {QUICRQ_ACTION_POST, QUICRQ_ACTION_ACCEPT}, d \in BOOLEAN}

\* quicrq_cnx_accept_media: a consumer is prepared for the posted media and
\* the stream waits for its fragments; local_ret is what preparing returned
quicrq_cnx_accept_media(ctx, use_datagram, local_ret) ==
    IF local_ret # 0 THEN [ctx |-> ctx, ret |-> local_ret]
    ELSE [ctx |-> [ctx EXCEPT !.receive_state = "quicrq_receive_repair",
                              !.is_datagram = use_datagram],
          ret |-> 0]

\* quicrq_cnx_post_accepted: the peer accepted the post, the stream sends
\* the media and expects nothing more
quicrq_cnx_post_accepted(ctx, use_datagram) ==
    [ctx |-> [ctx EXCEPT !.receive_state = "quicrq_receive_done",
                         !.is_datagram = use_datagram,
                         !.send_state = IF use_datagram THEN "quicrq_sending_ready"
                                        ELSE "quicrq_sending_stream"],
     ret |-> 0]

\* quicrq_cnx_handle_consumer_finished: when the consumer reports that it has
\* the whole media, the receiver closes its side of the stream
quicrq_cnx_handle_consumer_finished(ctx, consumer_ret) ==
    IF consumer_ret = quicrq_consumer_finished
    THEN [ctx |-> [ctx EXCEPT !.is_local_finished = TRUE,
                              !.send_state = "quicrq_sending_fin"],
          ret |-> 0]
    ELSE [ctx |-> ctx, ret |-> consumer_ret]

\* the switch on incoming.message_type, lines 2243-2334: the new context,
\* ret, and whether the message reached the media layer (subscribe, accept,
\* consumer_fn).  local_ret is what quicrq_subscribe_local_media or
\* quicrq_cnx_accept_media returns, consumer_ret what consumer_fn returns.
ReceiveMessage(ctx, incoming, local_ret, consumer_ret) ==
    LET rejected == [ctx |-> ctx, ret |-> -1, passed |-> FALSE]
        t == incoming.message_type
    IN IF t = QUICRQ_ACTION_OPEN_STREAM \/ t = QUICRQ_ACTION_OPEN_DATAGRAM
       THEN IF ctx.receive_state # "quicrq_receive_initial" THEN rejected
            ELSE [ctx |-> [ctx EXCEPT
                             !.is_datagram = (t = QUICRQ_ACTION_OPEN_DATAGRAM),
                             !.is_sender = TRUE,
                             !.send_state = IF t = QUICRQ_ACTION_OPEN_STREAM
                                            THEN "quicrq_sending_stream"
                                            ELSE "quicrq_sending_ready",
                             !.receive_state = "quicrq_receive_done"],
                  ret |-> local_ret, passed |-> TRUE]
       ELSE IF t = QUICRQ_ACTION_POST
       THEN IF ctx.receive_state # "quicrq_receive_initial" THEN rejected
            ELSE \* r is the value of quicrq_cnx_accept_media
                 CHOOSE x \in {[ctx |-> r.ctx, ret |-> r.ret, passed |-> TRUE] :
                                 r \in {quicrq_cnx_accept_media(
                                           ctx, incoming.use_datagram, local_ret)}} : TRUE
       ELSE IF t = QUICRQ_ACTION_ACCEPT
       THEN CHOOSE x \in {[ctx |-> r.ctx, ret |-> r.ret, passed |-> TRUE] :
                            r \in {quicrq_cnx_post_accepted(
                                      ctx, incoming.use_datagram)}} : TRUE
       ELSE IF t = QUICRQ_ACTION_FIN_DATAGRAM
       THEN IF ctx.receive_state # "quicrq_receive_repair" \/ ctx.final_object_id # 0
            THEN rejected
            ELSE CHOOSE x \in {[ctx |-> r.ctx, ret |-> r.ret, passed |-> TRUE] :
                                 r \in {quicrq_cnx_handle_consumer_finished(
                                           [ctx EXCEPT !.final_object_id =
                                                           incoming.object_id],
                                           consumer_ret)}} : TRUE
       ELSE IF t = QUICRQ_ACTION_REQUEST_REPAIR
       THEN rejected
       ELSE IF t = QUICRQ_ACTION_REPAIR
       THEN IF ctx.receive_state # "quicrq_receive_repair" THEN rejected
            ELSE CHOOSE x \in {[ctx |-> r.ctx, ret |-> r.ret, passed |-> TRUE] :
                                 r \in {quicrq_cnx_handle_consumer_finished(
                                           ctx, consumer_ret)}} : TRUE
       ELSE rejected

\* what the history keeps of a message: the message, the state it met and
\* its fate
Handled(ctx, incoming, passed, r) ==
    [message_type |-> incoming.message_type,
     object_id |-> incoming.object_id,
     receive_state |-> ctx.receive_state,
     passed |-> passed,
     ret |-> r]

\* the loop over the stream data, lines 2215-2339: messages holds the
\* messages not yet looked at, log the fate of those before
RECURSIVE ReceiveLoop(_, _, _, _, _)
ReceiveLoop(ctx, messages, local_ret, consumer_ret, log) ==
    IF messages = <<>> THEN [ctx |-> ctx, ret |-> 0, log |-> log]
    ELSE IF ctx.receive_state = "quicrq_receive_done"
    THEN [ctx |-> ctx, ret |-> -1,
          log |-> Append(log, Handled(ctx, Head(messages), FALSE, -1))]
    ELSE CHOOSE x \in
           {IF r.ret # 0
            THEN [ctx |-> r.ctx, ret |-> r.ret,
                  log |-> Append(log, Handled(ctx, Head(messages), r.passed, r.ret))]
            ELSE ReceiveLoop(r.ctx, Tail(messages), local_ret, consumer_ret,
                             Append(log, Handled(ctx, Head(messages), r.passed, r.ret))) :
              r \in {ReceiveMessage(ctx, Head(messages), local_ret, consumer_ret)}} : TRUE

\* quicrq_receive_stream_data
quicrq_receive_stream_data(ctx, messages, is_fin, local_ret, consumer_ret, log) ==
    CHOOSE x \in
      {[ctx |-> IF ~is_fin THEN r.ctx
                ELSE IF r.ctx.is_local_finished
                THEN [r.ctx EXCEPT !.is_peer_finished = TRUE, !.is_deleted = TRUE]
                ELSE [r.ctx EXCEPT !.is_peer_finished = TRUE,
                                   !.send_state = "quicrq_sending_fin"],
        ret |-> r.ret,
        log |-> r.log] :
          r \in {ReceiveLoop(ctx, messages, local_ret, consumer_ret, log)}} : TRUE

(***************************************************************************)
(* Initial state: quicrq_fragment_cache_create_ctx (memset 0), a source    *)
(* published for it, no reader, cache management not configured.           *)
(***************************************************************************)
Init ==
    /\ cached_ctx = [fragment_tree |-> <<>>,
                     first_fragment |-> NULL,
                     last_fragment |-> NULL,
                     last_ptr |-> 0,
                     first_group_id |-> 0,
                     first_object_id |-> 0,
                     next_group_id |-> 0,
                     next_object_id |-> 0,
                     next_offset |-> 0,
                     final_group_id |-> 0,
                     final_object_id |-> 0,
                     nb_object_received |-> 0,
                     is_closed |-> FALSE,
                     cache_delete_time |-> 0]
    /\ srce_ctx = [is_deleted |-> FALSE]
    /\ streams = [r \in Readers |-> InitStream]
    /\ qr_ctx = [cache_duration_max |-> 0, is_cache_closing_needed |-> FALSE,
                 first_cnx |-> <<>>]
    /\ current_time = 0
    /\ hung = FALSE
    /\ proposed = {}
    /\ ret = 0
    /\ sent = [r \in Readers |-> <<>>]
    /\ control_ctx = InitControl
    /\ handled = <<>>
    /\ wire = [phase |-> "idle", message |-> NullMessage, extra |-> <<>>,
               bytes |-> <<>>, decoded |-> DecodeFailure]
    /\ pipe = [message_sent |-> InitMessageBuffer,
               send_state |-> "quicrq_sending_ready",
               stream |-> <<>>,
               message_receive |-> InitMessageBuffer,
               queued |-> <<>>,
               received |-> <<>>]

\* the thread is not stuck and the source has not been deleted
Running == ~hung /\ ~srce_ctx.is_deleted

\* srce_ctx->first_stream: the streams attached to the source
AttachedStreams == {r \in Readers : streams[r].state = "attached"}

\* quicrq_wakeup_media_stream: a datagram stream is marked as having
\* datagrams to send
quicrq_wakeup_media_stream(st) ==
    IF st.is_datagram THEN [st EXCEPT !.is_active_datagram = TRUE] ELSE st

\* quicrq_source_wakeup: wake every stream attached to the source
quicrq_source_wakeup(sts) ==
    [r \in Readers |->
        IF sts[r].state = "attached" THEN quicrq_wakeup_media_stream(sts[r]) ELSE sts[r]]

(***************************************************************************)
(* Consumer callback, quicrq_media_datagram_ready: propose a fragment.     *)
(***************************************************************************)
ConsumerFragment(x, fail_at) ==
    /\ Running
    /\ ~cached_ctx.is_closed
    /\ LET p == [group_id |-> x.group_id, object_id |-> x.object_id,
                 offset |-> x.offset, data_length |-> x.data_length,
                 is_last_fragment |-> x.is_last_fragment,
                 nb_objects_previous_group |-> x.nb_objects_previous_group,
                 flags |-> x.flags,
                 data |-> ObjectBytes(x.offset, x.data_length),
                 current_time |-> current_time,
                 fail_at |-> fail_at]
       IN \E r \in {quicrq_fragment_propose_to_cache(cached_ctx, p)} :
            LET finished == /\ r.ret = 0
                            /\ (r.c.final_group_id > 0 \/ r.c.final_object_id > 0)
                            /\ r.c.next_group_id = r.c.final_group_id
                            /\ r.c.next_object_id = r.c.final_object_id
            IN /\ cached_ctx' = r.c
               /\ proposed' = IF TooOld(cached_ctx, p) \/ r.ret # 0 THEN proposed
                              ELSE proposed \cup
                                   {<<x.group_id, x.object_id, x.offset + i>> :
                                      i \in 0..(x.data_length - 1)}
               /\ ret' = IF finished THEN 1 ELSE r.ret
               /\ streams' = IF r.ret = 0 /\ r.data_was_added
                              THEN quicrq_source_wakeup(streams) ELSE streams
    /\ UNCHANGED <<srce_ctx, qr_ctx, current_time, hung, sent, control_ctx, handled, wire, pipe>>

(***************************************************************************)
(* Consumer callback, quicrq_media_final_object_id.                        *)
(***************************************************************************)
ConsumerFinal(final_group_id, final_object_id) ==
    /\ Running
    /\ ~cached_ctx.is_closed
    /\ cached_ctx' = quicrq_fragment_cache_learn_end_point(
                         cached_ctx, final_group_id, final_object_id)
    /\ ret' = IF /\ cached_ctx.next_group_id = final_group_id
                  /\ cached_ctx.next_object_id = final_object_id
               THEN 1 ELSE 0
    /\ streams' = IF /\ cached_ctx.next_group_id = final_group_id
                     /\ cached_ctx.next_object_id = final_object_id
                  THEN streams ELSE quicrq_source_wakeup(streams)
    /\ UNCHANGED <<srce_ctx, qr_ctx, current_time, hung, proposed, sent, control_ctx, handled, wire, pipe>>

(***************************************************************************)
(* Consumer callback, quicrq_media_start_point.                            *)
(***************************************************************************)
ConsumerStart(start_group_id, start_object_id) ==
    /\ Running
    /\ ~cached_ctx.is_closed
    /\ cached_ctx' = quicrq_fragment_cache_learn_start_point(
                         cached_ctx, start_group_id, start_object_id)
    /\ streams' = [r \in Readers |->
                     IF r \in AttachedStreams
                     THEN [streams[r] EXCEPT !.start_group_id = start_group_id,
                                             !.start_object_id = start_object_id]
                     ELSE streams[r]]
    /\ ret' = 0
    /\ UNCHANGED <<srce_ctx, qr_ctx, current_time, hung, proposed, sent, control_ctx, handled, wire, pipe>>

(***************************************************************************)
(* Consumer callback, quicrq_media_close.                                  *)
(***************************************************************************)
quicrq_media_close(c, now) ==
    LET end_unknown == c.final_group_id = 0 /\ c.final_object_id = 0
        fragment_node == picosplay_find_previous(
                             c.fragment_tree,
                             [group_id |-> c.next_group_id, object_id |-> 0, offset |-> 0])
        fragment == Fragment(c.fragment_tree, fragment_node)
        final == IF c.next_offset = 0
                 THEN <<c.next_group_id, c.next_object_id>>
                 ELSE IF c.next_object_id > 1
                      THEN <<c.next_group_id, c.next_object_id - 1>>
                      ELSE IF fragment_node # NULL
                           THEN <<fragment.group_id, fragment.object_id>>
                           ELSE <<c.first_group_id, c.first_object_id>>
    IN IF end_unknown
       THEN [c EXCEPT !.cache_delete_time = now + CacheDeleteDelayLong,
                      !.final_group_id = final[1],
                      !.final_object_id = final[2],
                      !.is_closed = TRUE]
       ELSE [c EXCEPT !.cache_delete_time = now + CacheDeleteDelayShort,
                      !.is_closed = TRUE]

ConsumerClose ==
    /\ Running
    /\ ~cached_ctx.is_closed
    /\ cached_ctx' = quicrq_media_close(cached_ctx, current_time)
    /\ ret' = 0
    /\ streams' = quicrq_source_wakeup(streams)
    /\ UNCHANGED <<srce_ctx, qr_ctx, current_time, hung, proposed, sent, control_ctx, handled, wire, pipe>>

(***************************************************************************)
(* Readers.                                                                *)
(***************************************************************************)
\* quicrq_fragment_publisher_subscribe, the stream joining first_stream,
\* then quicrq_wakeup_media_stream
Subscribe(r, is_datagram) ==
    /\ Running
    /\ streams[r].state = "idle"
    /\ streams' = [streams EXCEPT ![r] =
                      [InitStream EXCEPT !.state = "attached",
                                         !.is_datagram = is_datagram,
                                         !.is_active_datagram = is_datagram,
                                         !.start_group_id = cached_ctx.first_group_id,
                                         !.start_object_id = cached_ctx.first_object_id]]
    /\ UNCHANGED <<cached_ctx, srce_ctx, qr_ctx, current_time, hung, proposed, ret, sent, control_ctx, handled, wire, pipe>>

\* quicrq_prepare_to_send_media_to_stream: get_data without a buffer for the
\* size, then, when something is available, the header and get_data for the
\* bytes; the end of media is reported by a FIN message
ReaderPollStream(r, data_max_size, pick) ==
    /\ Running
    /\ streams[r].state = "attached"
    /\ ~streams[r].is_datagram
    /\ ~streams[r].is_final_object_id_sent
    /\ streams[r].media_ctx.length_sent <= MaxEnd
    /\ \E stale \in StaleFragments(cached_ctx.fragment_tree,
                                   streams[r].media_ctx.current_fragment) :
         \E size \in {quicrq_fragment_publisher_fn(streams[r].media_ctx, cached_ctx,
                                                    data_max_size, FALSE, pick, stale)} :
            IF size.data_length = 0
            THEN /\ streams' = [streams EXCEPT
                       ![r].media_ctx = size.m,
                       ![r].final_object_id =
                           IF size.is_media_finished THEN streams[r].next_object_id ELSE @,
                       ![r].is_final_object_id_sent = size.is_media_finished]
                 /\ sent' = sent
            ELSE \E got \in {quicrq_fragment_publisher_fn(size.m, cached_ctx,
                                   size.data_length, TRUE, pick, stale)} :
                 IF got.data_length # size.data_length
                 THEN \* available != data_length: ret = -1, nothing is committed
                      /\ streams' = [streams EXCEPT ![r].media_ctx = got.m]
                      /\ sent' = sent
                 ELSE
                    /\ streams' = [streams EXCEPT
                          ![r].media_ctx = got.m,
                          ![r].next_object_id = IF got.is_last_fragment THEN @ + 1 ELSE @,
                          ![r].next_object_offset =
                              IF got.is_last_fragment THEN 0 ELSE @ + size.data_length]
                    /\ sent' = [sent EXCEPT ![r] = Append(@,
                          [group_id |-> got.group_id,
                           object_id |-> got.object_id,
                           offset |-> got.offset,
                           header_object_id |-> streams[r].next_object_id,
                           header_offset |-> streams[r].next_object_offset,
                           is_last_fragment |-> got.is_last_fragment,
                           data |-> got.data])]
                    /\ Len(sent'[r]) <= MaxSent
    /\ UNCHANGED <<cached_ctx, srce_ctx, qr_ctx, current_time, hung, proposed, ret, control_ctx, handled, wire, pipe>>

\* quicrq_fragment_publisher_fn, action quicrq_media_source_skip_object
ReaderSkip(r) ==
    /\ Running
    /\ streams[r].state = "attached"
    /\ ~streams[r].is_datagram
    /\ ~streams[r].media_ctx.is_current_object_skipped
    /\ streams' = [streams EXCEPT
                      ![r].media_ctx.is_current_object_skipped = TRUE,
                      ![r].skipped = @ \cup {<<streams[r].media_ctx.current_group_id,
                                               streams[r].media_ctx.current_object_id>>}]
    /\ UNCHANGED <<cached_ctx, srce_ctx, qr_ctx, current_time, hung, proposed, ret, sent, control_ctx, handled, wire, pipe>>

\* a datagram handed to the transport, with what the transport and the
\* history know of it: when it was sent, its outcome so far ("flying",
\* "acked" or "lost"), whether it stands for a skipped object and whether it
\* is a repeat
InFlight(datagram, is_skip, is_repeat) ==
    [group_id |-> datagram.group_id,
     object_id |-> datagram.object_id,
     offset |-> datagram.offset,
     flags |-> datagram.flags,
     nb_objects_previous_group |-> datagram.nb_objects_previous_group,
     is_last_fragment |-> datagram.is_last_fragment,
     data |-> datagram.data,
     sent_time |-> current_time,
     outcome |-> "flying",
     is_skip |-> is_skip,
     is_repeat |-> is_repeat]

\* quicrq_fragment_datagram_publisher_fn
ReaderPollDatagram(r, payload, congested) ==
    /\ Running
    /\ streams[r].state = "attached"
    /\ streams[r].is_datagram
    /\ streams[r].media_ctx.length_sent <= MaxEnd
    /\ \E stale \in StaleFragments(cached_ctx.fragment_tree,
                                   streams[r].media_ctx.current_fragment) :
         \E got \in {quicrq_fragment_datagram_publisher_fn(
                          streams[r], cached_ctx, payload, congested, stale)} :
            /\ streams' = [streams EXCEPT ![r] = got.st]
            /\ sent' = [sent EXCEPT ![r] =
                           IF got.media_was_sent
                           THEN Append(@, InFlight(got.datagram, got.should_skip, FALSE))
                           ELSE @]
            /\ Cardinality({i \in 1..Len(sent'[r]) : ~sent'[r][i].is_repeat}) <= MaxSent
    /\ UNCHANGED <<cached_ctx, srce_ctx, qr_ctx, current_time, hung, proposed, ret, control_ctx, handled, wire, pipe>>

\* quicrq_handle_datagram_ack_nack, picoquic_callback_datagram_acked: the
\* peer has datagram i of reader r
DatagramAcked(r, i) ==
    /\ Running
    /\ streams[r].state = "attached"
    /\ streams[r].is_datagram
    /\ i \in 1..Len(sent[r])
    /\ sent[r][i].outcome = "flying"
    /\ streams' = [streams EXCEPT ![r] =
                      quicrq_datagram_handle_ack(@, sent[r][i].object_id, sent[r][i].offset)]
    /\ sent' = [sent EXCEPT ![r][i].outcome = "acked"]
    /\ UNCHANGED <<cached_ctx, srce_ctx, qr_ctx, current_time, hung, proposed, ret, control_ctx, handled, wire, pipe>>

\* picoquic_callback_datagram_lost: datagram i of reader r is reported lost;
\* the repeats are queued for the transport
DatagramLostEvent(r, i, room) ==
    /\ Running
    /\ streams[r].state = "attached"
    /\ streams[r].is_datagram
    /\ i \in 1..Len(sent[r])
    /\ sent[r][i].outcome = "flying"
    /\ \E got \in {quicrq_datagram_handle_lost(streams[r], sent[r][i], room, current_time)} :
         /\ streams' = [streams EXCEPT ![r] = got.st]
         /\ sent' = [sent EXCEPT ![r] =
                        [j \in 1..Len(@) |->
                            IF j = i THEN [@[j] EXCEPT !.outcome = "lost"] ELSE @[j]]
                        \o [j \in 1..Len(got.queued) |->
                               InFlight(got.queued[j], FALSE, TRUE)]]
         /\ hung' = (hung \/ got.null_record)
    /\ UNCHANGED <<cached_ctx, srce_ctx, qr_ctx, current_time, proposed, ret, control_ctx, handled, wire, pipe>>

\* the loss reports of a reader still standing are fewer than MaxLost
DatagramLost(r, i, room) ==
    /\ Cardinality({j \in 1..Len(sent[r]) : sent[r][j].outcome = "lost"}) < MaxLost
    /\ DatagramLostEvent(r, i, room)

\* picoquic_callback_datagram_spurious: datagram i of reader r, reported
\* lost, reached the peer after all
DatagramSpurious(r, i) ==
    /\ Running
    /\ streams[r].state = "attached"
    /\ streams[r].is_datagram
    /\ i \in 1..Len(sent[r])
    /\ sent[r][i].outcome = "lost"
    /\ streams' = [streams EXCEPT ![r] =
                      quicrq_datagram_handle_ack(@, sent[r][i].object_id, sent[r][i].offset)]
    /\ sent' = [sent EXCEPT ![r][i].outcome = "acked"]
    /\ UNCHANGED <<cached_ctx, srce_ctx, qr_ctx, current_time, hung, proposed, ret, control_ctx, handled, wire, pipe>>

\* quicrq_delete_stream_ctx of a reader stream: detach from the source, then
\* quicrq_fragment_publisher_close
ReaderClose(r) ==
    /\ Running
    /\ streams[r].state = "attached"
    /\ streams' = [streams EXCEPT ![r] = [InitStream EXCEPT !.state = "closed"]]
    /\ qr_ctx' = [qr_ctx EXCEPT !.is_cache_closing_needed = @ \/ cached_ctx.is_closed]
    /\ UNCHANGED <<cached_ctx, srce_ctx, current_time, hung, proposed, ret, sent, control_ctx, handled, wire, pipe>>

(***************************************************************************)
(* quicrq_manage_relay_cache.                                              *)
(***************************************************************************)
ManageRelayCache ==
    /\ ~hung
    /\ IF qr_ctx.cache_duration_max > 0 \/ qr_ctx.is_cache_closing_needed
       THEN
         \E purged \in {IF srce_ctx.is_deleted \/ qr_ctx.cache_duration_max = 0
                        THEN [c |-> cached_ctx, hangs |-> FALSE]
                        ELSE quicrq_fragment_cache_media_purge(
                                 cached_ctx, current_time, qr_ctx.cache_duration_max,
                                 UINT64_MAX)} :
           LET cache_ctx == purged.c
               srce_to_delete ==
                   /\ ~srce_ctx.is_deleted
                   /\ cache_ctx.is_closed
                   /\ \/ cache_ctx.first_fragment = NULL
                      \/ /\ AttachedStreams = {}
                         /\ current_time >= cache_ctx.cache_delete_time
               is_cache_closing_still_needed ==
                   /\ ~srce_ctx.is_deleted
                   /\ cache_ctx.is_closed
                   /\ cache_ctx.first_fragment # NULL
                   /\ AttachedStreams = {}
                   /\ current_time < cache_ctx.cache_delete_time
           IN IF purged.hangs
              THEN /\ hung' = TRUE
                   /\ UNCHANGED <<cached_ctx, srce_ctx, qr_ctx>>
              ELSE /\ hung' = FALSE
                   /\ cached_ctx' = cache_ctx
                   /\ srce_ctx' = [srce_ctx EXCEPT !.is_deleted = @ \/ srce_to_delete]
                   /\ qr_ctx' = [qr_ctx EXCEPT !.is_cache_closing_needed =
                                                  is_cache_closing_still_needed]
       ELSE UNCHANGED <<cached_ctx, srce_ctx, qr_ctx, hung>>
    /\ UNCHANGED <<streams, current_time, proposed, ret, sent, control_ctx, handled, wire, pipe>>

\* quicrq_set_cache_duration
SetCacheDuration ==
    /\ ~hung
    /\ qr_ctx.cache_duration_max = 0
    /\ qr_ctx' = [qr_ctx EXCEPT !.cache_duration_max = CacheDuration]
    /\ UNCHANGED <<cached_ctx, srce_ctx, streams, current_time, hung, proposed, ret, sent, control_ctx, handled, wire, pipe>>

(***************************************************************************)
(* The real-time purge of the source.                                      *)
(***************************************************************************)
PurgeToGob ==
    /\ Running
    /\ cached_ctx' = quicrq_fragment_cache_media_purge_to_gob(
                         cached_ctx,
                         {streams[r].media_ctx.publisher_object_tree : r \in AttachedStreams})
    /\ UNCHANGED <<srce_ctx, streams, qr_ctx, current_time, hung, proposed, ret, sent, control_ctx, handled, wire, pipe>>

(***************************************************************************)
(* The clock.                                                              *)
(***************************************************************************)
Tick ==
    /\ ~hung
    /\ current_time + CacheDeleteDelayLong <= MaxTime
    /\ current_time' = current_time + CacheDeleteDelayLong
    /\ UNCHANGED <<cached_ctx, srce_ctx, streams, qr_ctx, hung, proposed, ret, sent, control_ctx, handled, wire, pipe>>

(***************************************************************************)
(* The control stream.                                                     *)
(***************************************************************************)
\* picoquic_callback_stream_data / picoquic_callback_stream_fin on the
\* control stream.  A callback that fails closes the connection, and the
\* close deletes the stream context.
ReceiveStreamData(messages, is_fin, local_ret, consumer_ret) ==
    /\ ~control_ctx.is_deleted
    /\ ~control_ctx.is_peer_finished
    /\ Len(handled) + Len(messages) <= MaxHandled
    /\ \E r \in {quicrq_receive_stream_data(control_ctx, messages, is_fin,
                                            local_ret, consumer_ret, handled)} :
          /\ control_ctx' = IF r.ret # 0 THEN [r.ctx EXCEPT !.is_deleted = TRUE]
                            ELSE r.ctx
          /\ handled' = r.log
    /\ UNCHANGED <<cached_ctx, srce_ctx, streams, qr_ctx, current_time, hung, proposed,
                   ret, sent, wire, pipe>>

\* quicrq_cnx_subscribe_media: the local side asks for a media and waits for
\* its fragments and its final object id
SubscribeMedia(use_datagram) ==
    /\ ~control_ctx.is_deleted
    /\ control_ctx.receive_state = "quicrq_receive_initial"
    /\ control_ctx' = [control_ctx EXCEPT !.receive_state = "quicrq_receive_repair",
                                          !.send_state = "quicrq_sending_initial",
                                          !.is_datagram = use_datagram]
    /\ UNCHANGED <<cached_ctx, srce_ctx, streams, qr_ctx, current_time, hung, proposed,
                   ret, sent, handled, wire, pipe>>

\* quicrq_cnx_post_media: the local side posts a media and waits for the
\* peer to accept it
PostMedia(use_datagram) ==
    /\ ~control_ctx.is_deleted
    /\ control_ctx.receive_state = "quicrq_receive_initial"
    /\ control_ctx' = [control_ctx EXCEPT !.receive_state = "quicrq_receive_confirmation",
                                          !.send_state = "quicrq_sending_initial",
                                          !.is_sender = TRUE,
                                          !.is_datagram = use_datagram]
    /\ UNCHANGED <<cached_ctx, srce_ctx, streams, qr_ctx, current_time, hung, proposed,
                   ret, sent, handled, wire, pipe>>

(***************************************************************************)
(* A control message on the wire.                                          *)
(***************************************************************************)
\* the sender encodes msg (quicrq_msg_encode); extra is what the buffer
\* holds after it
MsgEncode(msg, extra) ==
    /\ wire' = [phase |-> "encoded", message |-> msg, extra |-> extra,
                bytes |-> quicrq_msg_encode(msg) \o extra, decoded |-> DecodeFailure]
    /\ UNCHANGED <<cached_ctx, srce_ctx, streams, qr_ctx, current_time, hung, proposed,
                   ret, sent, control_ctx, handled, pipe>>

\* the receiver decodes the buffer (quicrq_msg_decode)
MsgDecode ==
    /\ wire.phase = "encoded"
    /\ wire' = [wire EXCEPT !.phase = "decoded",
                            !.decoded = quicrq_msg_decode(wire.bytes)]
    /\ UNCHANGED <<cached_ctx, srce_ctx, streams, qr_ctx, current_time, hung, proposed,
                   ret, sent, control_ctx, handled, pipe>>

(***************************************************************************)
(* Specifications.                                                         *)
(***************************************************************************)
\* the cache under every proposal, every allocation succeeding
ProposeNext ==
    /\ cached_ctx.last_ptr < MaxFragments
    /\ \E x \in ProposalInputs : ValidProposal(x) /\ ConsumerFragment(x, 0)

SpecPropose == Init /\ [][ProposeNext]_vars

\* proposals of which one allocation may fail
AllocNext ==
    /\ cached_ctx.last_ptr < MaxAllocFragments
    /\ \E x \in ProposalInputs, fail_at \in 0..MaxFailAt :
          ValidProposal(x) /\ ConsumerFragment(x, fail_at)

SpecAlloc == Init /\ [][AllocNext]_vars

\* the relay: the media arriving in fragments, readers, purges, management
MediaNext ==
    /\ cached_ctx.last_ptr < MaxMediaFragments
    /\ \E x \in MediaFragments : ValidMediaFragment(x) /\ ConsumerFragment(x, 0)

\* the published media ends after object MaxObject of group MaxGroup
FinalNext == ConsumerFinal(MaxGroup, MaxObject + 1)

StartNext ==
    \E g \in 0..MaxGroup, o \in 0..MaxObject : ConsumerStart(g, o)

SubscribeNext ==
    \E r \in Readers, is_datagram \in BOOLEAN : Subscribe(r, is_datagram)

PollStreamNext ==
    \E r \in Readers, data_max_size \in 1..ObjectLength, pick \in 0..1 :
        ReaderPollStream(r, data_max_size, pick)

PollDatagramNext ==
    \E r \in Readers, payload \in 1..ObjectLength, congested \in BOOLEAN :
        ReaderPollDatagram(r, payload, congested)

AckedNext == \E r \in Readers : \E i \in 1..Len(sent[r]) : DatagramAcked(r, i)

LostNext ==
    \E r \in Readers : \E i \in 1..Len(sent[r]), room \in 1..ObjectLength :
        DatagramLost(r, i, room)

SpuriousNext == \E r \in Readers : \E i \in 1..Len(sent[r]) : DatagramSpurious(r, i)

SkipNext == \E r \in Readers : ReaderSkip(r)

CloseNext == \E r \in Readers : ReaderClose(r)

\* the cache and everything that writes it; no reader
CacheNext ==
    \/ MediaNext
    \/ FinalNext
    \/ StartNext
    \/ ConsumerClose
    \/ ManageRelayCache
    \/ SetCacheDuration
    \/ PurgeToGob
    \/ Tick

SpecCache == Init /\ [][CacheNext]_vars

\* the relay serving readers from the cache; the start point stays (0, 0)
RelayNext ==
    \/ MediaNext
    \/ FinalNext
    \/ ConsumerClose
    \/ SubscribeNext
    \/ PollStreamNext
    \/ PollDatagramNext
    \/ SkipNext
    \/ CloseNext
    \/ ManageRelayCache
    \/ SetCacheDuration
    \/ PurgeToGob
    \/ Tick

SpecRelay == Init /\ [][RelayNext]_vars

\* cache management runs on every turn of the packet loop, and the clock
\* advances
SpecRelayFair == SpecRelay /\ WF_vars(ManageRelayCache) /\ WF_vars(Tick)

\* everything
Next ==
    \/ MediaNext
    \/ FinalNext
    \/ StartNext
    \/ ConsumerClose
    \/ SubscribeNext
    \/ PollStreamNext
    \/ PollDatagramNext
    \/ SkipNext
    \/ CloseNext
    \/ ManageRelayCache
    \/ SetCacheDuration
    \/ PurgeToGob
    \/ Tick

Spec == Init /\ [][Next]_vars

(***************************************************************************)
(* Properties.                                                             *)
(***************************************************************************)
Records(c) == {c.fragment_tree[i] : i \in 1..Len(c.fragment_tree)}

\* the byte positions of its object that a record holds
Positions(f) == {f.offset + i : i \in 0..(f.data_length - 1)}

\* the bytes <<g, o, position>> the cache holds
Addressable(c) ==
    UNION {{<<f.group_id, f.object_id, pos>> : pos \in Positions(f)} : f \in Records(c)}

\* (a1, a2, a3) is at or before (b1, b2, b3) in lexicographic order
LexLE(a, b) ==
    \/ a[1] < b[1]
    \/ a[1] = b[1] /\ a[2] < b[2]
    \/ a[1] = b[1] /\ a[2] = b[2] /\ a[3] <= b[3]

Frontier(c) == <<c.next_group_id, c.next_object_id, c.next_offset>>

\* C1: after any sequence of proposals, no two cached fragments of the same
\* (group, object) hold a byte position in common.
C1_NoOverlap ==
    \A i, j \in 1..Len(cached_ctx.fragment_tree) :
        (/\ i < j
         /\ cached_ctx.fragment_tree[i].group_id = cached_ctx.fragment_tree[j].group_id
         /\ cached_ctx.fragment_tree[i].object_id = cached_ctx.fragment_tree[j].object_id)
        => Positions(cached_ctx.fragment_tree[i])
               \cap Positions(cached_ctx.fragment_tree[j]) = {}

\* C2: with every proposal at or after the start point and no purge, the
\* bytes the cache holds for each (group, object) are exactly the union of
\* the byte ranges proposed for it.
C2_AddressableIsUnion == Addressable(cached_ctx) = proposed

\* C3: the key-order tree holds at most one record per key
\* (group, object, offset), zero-length and overlapping proposals included.
C3_UniqueKey ==
    \A i, j \in 1..Len(cached_ctx.fragment_tree) :
        (/\ cached_ctx.fragment_tree[i].group_id = cached_ctx.fragment_tree[j].group_id
         /\ cached_ctx.fragment_tree[i].object_id = cached_ctx.fragment_tree[j].object_id
         /\ cached_ctx.fragment_tree[i].offset = cached_ctx.fragment_tree[j].offset)
        => i = j

\* C4: the frontier (next_group_id, next_object_id, next_offset) never
\* decreases in lexicographic order, whichever of propose, learn_start,
\* learn_end, archival purge, real-time purge and consumer close acts.
C4_FrontierMonotone ==
    [][LexLE(Frontier(cached_ctx), Frontier(cached_ctx'))]_vars

\* C4 witness: the frontier was snapped into group 1 by a start point and
\* advanced by a proposal, the end was learned, the consumer closed, and
\* the archival purge emptied the cache.
C4_Witness ==
    /\ cached_ctx.next_group_id = 1
    /\ cached_ctx.next_offset > 0
    /\ cached_ctx.first_group_id = 1
    /\ cached_ctx.final_object_id = MaxObject + 1
    /\ cached_ctx.is_closed
    /\ cached_ctx.last_ptr > 0
    /\ cached_ctx.fragment_tree = <<>>

\* the bytes of object (g, o) are cached from offset 0 through a fragment
\* flagged last
CachedCompletely(c, g, o) ==
    \E f \in Records(c) :
        /\ f.group_id = g
        /\ f.object_id = o
        /\ f.is_last_fragment
        /\ \A pos \in 0..(f.offset + f.data_length - 1) : <<g, o, pos>> \in Addressable(c)

\* the advance rule, started at record f, moves the frontier of c
ExpectedNext(c, f) ==
    Frontier(quicrq_fragment_cache_progress(c, f.ptr)) # Frontier(c)

\* C5: after propose calls alone the frontier is the end of the contiguous
\* prefix: the objects of the frontier group below next_object_id are
\* cached completely, bytes [0, next_offset) of object next_object_id are
\* cached, and no cached record is one the advance rule would take to move
\* the frontier further.
C5_FrontierIsPrefixEnd ==
    /\ \A o \in 0..(cached_ctx.next_object_id - 1) :
           CachedCompletely(cached_ctx, cached_ctx.next_group_id, o)
    /\ \A pos \in 0..(cached_ctx.next_offset - 1) :
           <<cached_ctx.next_group_id, cached_ctx.next_object_id, pos>>
               \in Addressable(cached_ctx)
    /\ \A f \in Records(cached_ctx) : ~ExpectedNext(cached_ctx, f)

\* the cache holds the first fragment of group g + 1, announcing n objects
\* in group g
CrossingRecord(c, g, n) ==
    \E f \in Records(c) :
        /\ f.group_id = g + 1
        /\ f.object_id = 0
        /\ f.offset = 0
        /\ f.nb_objects_previous_group = n

\* object (g, o) passes the completeness check of propose
Complete(c, g, o) == ObjectIsComplete(c.fragment_tree, [group_id |-> g, object_id |-> o])

\* C6: the frontier enters group g + 1 only through a cached record
\* (g + 1, 0, 0) announcing a positive object count; and when that record
\* is cached while the last object of group g is incomplete, the propose
\* call that completes the object moves the frontier into group g + 1.
C6_GroupCrossing ==
    [][/\ cached_ctx'.next_group_id # cached_ctx.next_group_id
          => /\ cached_ctx'.next_group_id = cached_ctx.next_group_id + 1
             /\ \E n \in 1..(MaxObject + 1) :
                    CrossingRecord(cached_ctx', cached_ctx.next_group_id, n)
       /\ (/\ CrossingRecord(cached_ctx, cached_ctx.next_group_id,
                             cached_ctx.next_object_id + 1)
           /\ ~Complete(cached_ctx, cached_ctx.next_group_id, cached_ctx.next_object_id)
           /\ Complete(cached_ctx', cached_ctx.next_group_id, cached_ctx.next_object_id))
          => cached_ctx'.next_group_id = cached_ctx.next_group_id + 1
      ]_vars

\* C7: a propose call in which an allocation fails returns failure and
\* leaves the cache exactly as it was: records, frontier and
\* nb_object_received.
C7_FailureLeavesCache ==
    [][ret' = -1 => cached_ctx' = cached_ctx]_vars

\* the (group, object) a reader is reading: the current object of a stream
\* reader, the lowest object a datagram reader still tracks
HasCursor(st) == ~st.is_datagram \/ st.media_ctx.publisher_object_tree # <<>>

Cursor(st) ==
    IF st.is_datagram
    THEN <<st.media_ctx.publisher_object_tree[1].group_id,
           st.media_ctx.publisher_object_tree[1].object_id>>
    ELSE <<st.media_ctx.current_group_id, st.media_ctx.current_object_id>>

\* C8: no step removes a fragment of an object (g, o) while an attached
\* reader has its cursor at or before (g, o).
C8_PurgeSparesReaders ==
    [][\A f \in {h \in Records(cached_ctx) :
                    \A k \in Records(cached_ctx') : k.ptr # h.ptr} :
         \A r \in AttachedStreams :
             HasCursor(streams[r])
                 => ~LexLE(Cursor(streams[r]) \o <<0>>, <<f.group_id, f.object_id, 0>>)
      ]_vars

\* C9: a source deleted by cache management had its cache closed, no reader
\* attached, and the cache empty or the time at cache_delete_time or later.
C9_DeleteCondition ==
    srce_ctx.is_deleted
        => /\ cached_ctx.is_closed
           /\ AttachedStreams = {}
           /\ \/ cached_ctx.first_fragment = NULL
              \/ current_time >= cached_ctx.cache_delete_time

\* C10: a source whose cache is closed and which has no reader is deleted
\* once the time is past cache_delete_time, unless a reader attaches.
C10_EventuallyDeleted ==
    [](/\ cached_ctx.is_closed
       /\ AttachedStreams = {}
       /\ current_time >= cached_ctx.cache_delete_time
       => <>(srce_ctx.is_deleted \/ AttachedStreams # {}))

(***************************************************************************)
(* Datagram mode delivery.                                                 *)
(***************************************************************************)
\* the relay serving datagram readers over a transport that acknowledges or
\* loses each datagram; nothing is purged
DatagramNext ==
    \/ MediaNext
    \/ FinalNext
    \/ SubscribeNext
    \/ PollDatagramNext
    \/ AckedNext
    \/ LostNext
    \/ SpuriousNext

SpecDatagram == Init /\ [][DatagramNext]_vars

\* congestion control enabled, every datagram still in flight: media
\* arrives, readers subscribe and are polled with room for a whole fragment
SkipMediaNext ==
    /\ cached_ctx.last_ptr < MaxSkipFragments
    /\ \E x \in MediaFragments : ValidMediaFragment(x) /\ ConsumerFragment(x, 0)

CongestedPollNext ==
    \E r \in Readers, congested \in BOOLEAN : ReaderPollDatagram(r, ObjectLength, congested)

CongestionNext ==
    \/ SkipMediaNext
    \/ SubscribeNext
    \/ CongestedPollNext

SpecSkip == Init /\ [][CongestionNext]_vars

\* congestion skipping disabled: the congestion check never asks for a skip
UncongestedPollNext ==
    \E r \in Readers, payload \in 1..ObjectLength : ReaderPollDatagram(r, payload, FALSE)

ReliableNext ==
    \/ MediaNext
    \/ FinalNext
    \/ SubscribeNext
    \/ UncongestedPollNext
    \/ AckedNext
    \/ LostNext
    \/ SpuriousNext

\* the transport keeps asking a stream that has datagrams to send for the
\* next one, and every datagram it carries is acknowledged unless it is
\* reported lost
SpecDatagramFair ==
    /\ Init
    /\ [][ReliableNext]_vars
    /\ WF_vars(UncongestedPollNext)
    /\ WF_vars(AckedNext)

\* the consumer side closes while readers are served; the transport keeps
\* asking each reader stream for data
EndOfMediaNext ==
    \/ MediaNext
    \/ FinalNext
    \/ ConsumerClose
    \/ SubscribeNext
    \/ PollStreamNext
    \/ UncongestedPollNext

SpecEndOfMediaFair ==
    /\ Init
    /\ [][EndOfMediaNext]_vars
    /\ WF_vars(PollStreamNext)
    /\ WF_vars(UncongestedPollNext)

(***************************************************************************)
(* Stream mode delivery.                                                   *)
(***************************************************************************)
\* the relay serving readers that stay attached: media arrives, the end is
\* learned, readers subscribe and are polled; nothing is purged or skipped
StreamNext ==
    \/ MediaNext
    \/ FinalNext
    \/ SubscribeNext
    \/ PollStreamNext

SpecStream == Init /\ [][StreamNext]_vars

\* a message of the stream reader (the datagram reader's carry flags)
IsStreamMessage(msg) == "header_object_id" \in DOMAIN msg

\* the bytes a message carries, each with its place <<g, o, position>>
MessageBytes(msg) ==
    [i \in 1..Len(msg.data) |->
        [place |-> <<msg.group_id, msg.object_id, msg.offset + i - 1>>,
         value |-> msg.data[i],
         ends_object |-> msg.is_last_fragment /\ i = Len(msg.data)]]

RECURSIVE EmittedBytes(_)
EmittedBytes(messages) ==
    IF messages = <<>> THEN <<>>
    ELSE MessageBytes(Head(messages)) \o EmittedBytes(Tail(messages))

\* the length of object (g, o) as proposed
ProposedLength(g, o) ==
    Cardinality({b \in proposed : b[1] = g /\ b[2] = o})

\* byte b2 is emitted right after byte b1: the next byte of the object, or
\* the first byte of the next object or of the next group once b1 ended its
\* object
Follows(b1, b2) ==
    IF b1.ends_object
    THEN \/ b2.place = <<b1.place[1], b1.place[2] + 1, 0>>
         \/ b2.place = <<b1.place[1] + 1, 0, 0>>
    ELSE b2.place = <<b1.place[1], b1.place[2], b1.place[3] + 1>>

\* C11: what a stream reader has emitted is, byte for byte and in
\* (group, object, offset) order, the proposed objects from the start point
\* on: every byte has the value proposed for its place, bytes follow one
\* another without gap or repeat, and a fragment marked last ends at the
\* proposed length of its object.
C11_StreamFaithful ==
    \A r \in Readers :
        (sent[r] # <<>> /\ IsStreamMessage(sent[r][1])) =>
            LET b == EmittedBytes(sent[r])
            IN /\ b # <<>> => b[1].place = <<0, 0, 0>>
               /\ \A i \in 1..Len(b) :
                     /\ b[i].place \in proposed
                     /\ b[i].value = b[i].place[3]
                     /\ b[i].ends_object
                           => b[i].place[3] + 1 = ProposedLength(b[i].place[1], b[i].place[2])
               /\ \A i \in 1..(Len(b) - 1) : Follows(b[i], b[i + 1])

(***************************************************************************)
(* Datagram mode delivery.                                                 *)
(***************************************************************************)
DatagramReaders == {r \in Readers : streams[r].state = "attached" /\ streams[r].is_datagram}

\* the bytes <<g, o, position, value>> the peer of reader r has received
Delivered(r) ==
    UNION {{<<sent[r][i].group_id, sent[r][i].object_id,
              sent[r][i].offset + k - 1, sent[r][i].data[k]>> :
                k \in 1..Len(sent[r][i].data)} :
           i \in {j \in 1..Len(sent[r]) : sent[r][j].outcome = "acked"}}

\* the bytes <<g, o, position, value>> the cache holds
CachedBytes(c) ==
    UNION {{<<f.group_id, f.object_id, f.offset + k - 1, f.data[k]>> :
                k \in 1..f.data_length} : f \in Records(c)}

\* C12: with congestion skipping disabled, the peer of a datagram reader
\* ends up with every byte the cache holds, whether or not datagrams are
\* lost on the way.
C12_EventuallyDelivered ==
    (DatagramReaders # {})
        ~> (\A r \in DatagramReaders : CachedBytes(cached_ctx) \subseteq Delivered(r))

\* the datagrams of reader r that stand for a skipped object (g, o)
SkipDatagrams(r, g, o) ==
    {i \in 1..Len(sent[r]) :
        /\ sent[r][i].is_skip
        /\ sent[r][i].group_id = g
        /\ sent[r][i].object_id = o}

Horizon(st) ==
    <<Int64Diff(st.horizon_object_id, 0), Int64Diff(st.horizon_offset, 0)>>

\* (a1, a2) is at or before (b1, b2)
PairLE(a, b) == a[1] < b[1] \/ (a[1] = b[1] /\ a[2] <= b[2])

\* the keys of the ack records of a stream
AckKeys(st) ==
    {<<st.datagram_ack_tree[i].object_id, st.datagram_ack_tree[i].object_offset>> :
        i \in 1..Len(st.datagram_ack_tree)}

\* C14: while a datagram stream lives, no send, ack, loss or spurious loss
\* event moves its ack horizon back, and an ack record that an event
\* creates is at or after the horizon.
C14_HorizonMonotone ==
    [][\A r \in Readers :
          (streams[r].state = "attached" /\ streams'[r].state = "attached") =>
              /\ PairLE(Horizon(streams[r]), Horizon(streams'[r]))
              /\ \A k \in AckKeys(streams'[r]) \ AckKeys(streams[r]) :
                    PairLE(Horizon(streams[r]), k)
      ]_vars

\* the horizon has moved, and a send below it was counted and not recorded
C14_Witness ==
    \E r \in DatagramReaders :
        /\ streams[r].horizon_object_id # UINT64_MAX
        /\ streams[r].nb_horizon_events > 0
        /\ streams[r].datagram_ack_tree # <<>>

(***************************************************************************)
(* The archival purge.                                                     *)
(***************************************************************************)
\* the records of the object of record f
ObjectRecords(c, f) ==
    {h \in Records(c) : h.group_id = f.group_id /\ h.object_id = f.object_id}

\* the records a step takes out of the cache
Purged == {h \in Records(cached_ctx) : \A k \in Records(cached_ctx') : k.ptr # h.ptr}

\* C15: the archival purge deletes a fragment only when every fragment of
\* its object has been in the cache for cache_duration_max or longer and,
\* unless the cache is closed, only when the object is complete, whatever
\* the number of groups in the cache.
C15_PurgeOldAndComplete ==
    [][ManageRelayCache =>
          \A f \in Purged :
              /\ \A h \in ObjectRecords(cached_ctx, f) :
                    h.cache_time + qr_ctx.cache_duration_max <= current_time
              /\ cached_ctx.is_closed \/ CachedCompletely(cached_ctx, f.group_id, f.object_id)
      ]_vars

\* C16: a call of the archival purge returns: cache management never stays
\* inside it.
C16_PurgeReturns == [][ManageRelayCache => ~hung']_vars

(***************************************************************************)
(* The start point and the frontier.                                       *)
(***************************************************************************)
\* C17: the first object of the cache is at or before its frontier:
\* (first_group_id, first_object_id) <= (next_group_id, next_object_id).
C17_FirstBeforeNext ==
    PairLE(<<cached_ctx.first_group_id, cached_ctx.first_object_id>>,
           <<cached_ctx.next_group_id, cached_ctx.next_object_id>>)

\* C18: when the cache holds a last fragment of an object, it holds no
\* fragment of that object at a higher offset.
C18_NothingAfterLast ==
    \A f \in Records(cached_ctx) : \A h \in Records(cached_ctx) :
        (/\ f.is_last_fragment
         /\ h.group_id = f.group_id
         /\ h.object_id = f.object_id)
            => h.offset <= f.offset

(***************************************************************************)
(* End of media.                                                           *)
(***************************************************************************)
\* the reader of stream st has reported the end of the media: a stream
\* reader by the FIN message, a datagram reader by the final ids it
\* records in the stream for the control stream to send
EndReported(st) ==
    IF st.is_datagram
    THEN st.final_group_id # 0 \/ st.final_object_id # 0
    ELSE st.is_final_object_id_sent

\* C19: once the cache is closed, every attached reader that keeps being
\* polled reports the end of the media.
C19_EndOfMediaReported ==
    \A r \in Readers :
        (cached_ctx.is_closed /\ streams[r].state = "attached")
            ~> EndReported(streams[r])

(***************************************************************************)
(* The skip decision.                                                      *)
(***************************************************************************)
\* C20: a datagram reader never skips an object whose object_id is 0: no
\* skip marker goes out for it and no publisher object of it is dropped.
C20_FirstObjectNotSkipped ==
    \A r \in Readers :
        /\ \A i \in 1..Len(sent[r]) :
              ("is_skip" \in DOMAIN sent[r][i] /\ sent[r][i].is_skip)
                  => sent[r][i].object_id # 0
        /\ \A i \in 1..Len(streams[r].media_ctx.publisher_object_tree) :
              streams[r].media_ctx.publisher_object_tree[i].is_dropped
                  => streams[r].media_ctx.publisher_object_tree[i].object_id # 0

\* a reader has skipped an object and, after its first datagram, has sent
\* the start of an object 0
C20_Witness ==
    \E r \in DatagramReaders :
        /\ \E i \in 1..Len(sent[r]) : sent[r][i].is_skip
        /\ \E j \in 2..Len(sent[r]) :
              /\ sent[r][j].object_id = 0
              /\ sent[r][j].offset = 0
              /\ sent[r][j].data # <<>>

(***************************************************************************)
(* The two get_data calls of the stream sender.                            *)
(***************************************************************************)
\* the relay serving stream readers that may skip objects, the consumer side
\* closing at any point of the media; nothing is purged
SizeCallNext ==
    \/ SkipMediaNext
    \/ FinalNext
    \/ ConsumerClose
    \/ SubscribeNext
    \/ PollStreamNext
    \/ SkipNext

SpecSizeCall == Init /\ [][SizeCallNext]_vars

\* what quicrq_prepare_to_send_media_to_stream gets from the publisher: the
\* answer of the call with data = NULL, then the answer of the call with a
\* buffer of the size the first call announced
SizeThenData(m, c, data_max_size, pick, stale) ==
    CHOOSE p \in {[size |-> size,
                   got |-> quicrq_fragment_publisher_fn(size.m, c, size.data_length,
                                                        TRUE, pick, stale)] :
                    size \in {quicrq_fragment_publisher_fn(m, c, data_max_size,
                                                           FALSE, pick, stale)}} : TRUE

\* C21: for every stream reader, in every state, get_data with data = NULL
\* followed at once by get_data with a buffer of the announced size returns
\* the same data_length, is_last_fragment and is_media_finished.
C21_SizeCallAgrees ==
    \A r \in Readers :
        (streams[r].state = "attached" /\ ~streams[r].is_datagram) =>
            \A data_max_size \in 1..ObjectLength, pick \in 0..1 :
                \A stale \in StaleFragments(cached_ctx.fragment_tree,
                                            streams[r].media_ctx.current_fragment) :
                    \A p \in {SizeThenData(streams[r].media_ctx, cached_ctx,
                                           data_max_size, pick, stale)} :
                        /\ p.got.data_length = p.size.data_length
                        /\ p.got.is_last_fragment = p.size.is_last_fragment
                        /\ p.got.is_media_finished = p.size.is_media_finished

(***************************************************************************)
(* The control stream's receive state machine.                             *)
(***************************************************************************)
\* what one stream data callback brings: up to MaxBatch whole messages
MessageBatches == UNION {[1..n -> ControlMessages] : n \in 0..MaxBatch}

ReceiveNext ==
    \E messages \in MessageBatches, is_fin \in BOOLEAN,
       local_ret \in {0, -1}, consumer_ret \in {-1, 0, quicrq_consumer_finished} :
        /\ (messages # <<>> \/ is_fin)
        /\ ReceiveStreamData(messages, is_fin, local_ret, consumer_ret)

SubscribeMediaNext == \E use_datagram \in BOOLEAN : SubscribeMedia(use_datagram)

PostMediaNext == \E use_datagram \in BOOLEAN : PostMedia(use_datagram)

ControlNext ==
    \/ ReceiveNext
    \/ SubscribeMediaNext
    \/ PostMediaNext

SpecControl == Init /\ [][ControlNext]_vars

\* message i of the stream was not expected in the state it met
Unexpected(i) ==
    LET h == handled[i]
    IN \/ /\ h.message_type \in {QUICRQ_ACTION_OPEN_STREAM, QUICRQ_ACTION_OPEN_DATAGRAM,
                                 QUICRQ_ACTION_POST}
          /\ h.receive_state # "quicrq_receive_initial"
       \/ /\ h.message_type \in {QUICRQ_ACTION_REPAIR, QUICRQ_ACTION_FIN_DATAGRAM}
          /\ h.receive_state # "quicrq_receive_repair"
       \/ /\ h.message_type = QUICRQ_ACTION_FIN_DATAGRAM
          /\ \E j \in 1..(i - 1) : /\ handled[j].message_type = QUICRQ_ACTION_FIN_DATAGRAM
                                   /\ handled[j].passed
       \/ h.message_type = QUICRQ_ACTION_REQUEST_REPAIR
       \/ h.receive_state = "quicrq_receive_done"

\* C22: a control message that is not expected in the stream's receive state
\* (OPEN_STREAM, OPEN_DATAGRAM, POST outside initial; REPAIR, FIN_DATAGRAM
\* outside repair; a FIN_DATAGRAM after a final object id was received;
\* REQUEST_REPAIR; anything once done) is rejected with an error and does not
\* reach the media consumer.
C22_UnexpectedRejected ==
    \A i \in 1..Len(handled) :
        Unexpected(i) => handled[i].ret = -1 /\ ~handled[i].passed

(***************************************************************************)
(* The arrival list.                                                       *)
(***************************************************************************)
\* the cache under media of up to MaxSkipFragments fragments and everything
\* that deletes records; the media stays open
ArrivalNext ==
    \/ SkipMediaNext
    \/ StartNext
    \/ ManageRelayCache
    \/ SetCacheDuration
    \/ PurgeToGob
    \/ Tick

SpecArrival == Init /\ [][ArrivalNext]_vars

\* the records met from ptr along next_in_order, at most n of them; the walk
\* stops at NULL and at a pointer to no record
RECURSIVE ArrivalWalk(_, _, _)
ArrivalWalk(tree, ptr, n) ==
    IF ptr = NULL \/ n = 0 \/ NodeIndex(tree, ptr) = 0 THEN <<>>
    ELSE <<ptr>> \o ArrivalWalk(tree, Fragment(tree, ptr).next_in_order, n - 1)

ArrivalList(c) ==
    ArrivalWalk(c.fragment_tree, c.first_fragment, Len(c.fragment_tree) + 1)

\* C23: after any sequence of inserts and deletions the arrival list is
\* acyclic and doubly consistent, first_fragment and last_fragment are its
\* ends, it holds exactly the records of the key-order tree, and the records
\* stand in the order in which they arrived (the order of their allocation).
C23_ArrivalListSound ==
    LET tree == cached_ctx.fragment_tree
    IN \A list \in {ArrivalList(cached_ctx)} :
        /\ Len(list) = Len(tree)
        /\ {list[i] : i \in 1..Len(list)} = {tree[i].ptr : i \in 1..Len(tree)}
        /\ cached_ctx.first_fragment = (IF Len(list) = 0 THEN NULL ELSE list[1])
        /\ cached_ctx.last_fragment = (IF Len(list) = 0 THEN NULL ELSE list[Len(list)])
        /\ \A i \in 1..Len(list) :
              /\ Fragment(tree, list[i]).previous_in_order =
                     (IF i = 1 THEN NULL ELSE list[i - 1])
              /\ Fragment(tree, list[i]).next_in_order =
                     (IF i = Len(list) THEN NULL ELSE list[i + 1])
        /\ \A i, j \in 1..Len(list) : i < j => list[i] < list[j]

\* a record was deleted from the middle of the arrival list
C23_Witness ==
    /\ Len(cached_ctx.fragment_tree) = 2
    /\ cached_ctx.last_ptr = 3
    /\ {cached_ctx.fragment_tree[i].ptr : i \in 1..2} = {1, 3}

(***************************************************************************)
(* Round trip of the control messages.                                     *)
(***************************************************************************)
\* ids, offsets and stream ids at the ends of the varint classes
WireValues == {0, 63, 64, 16383, 16384, 1073741824}

WireUrls == {<<>>, <<97>>, <<97, 47>>, [i \in 1..MaxUrl |-> 97]}

WireData == {<<>>, <<1>>, <<1, 2>>}

\* the well-formed messages: the fields of each type, the others zero
WireMessages ==
    {[NullMessage EXCEPT !.message_type = t, !.url = u] :
        t \in {QUICRQ_ACTION_OPEN_STREAM, QUICRQ_ACTION_POST}, u \in WireUrls}
    \cup {[NullMessage EXCEPT !.message_type = QUICRQ_ACTION_OPEN_DATAGRAM,
                              !.url = u, !.datagram_stream_id = v] :
        u \in WireUrls, v \in WireValues}
    \cup {[NullMessage EXCEPT !.message_type = QUICRQ_ACTION_FIN_DATAGRAM,
                              !.final_object_id = v] : v \in WireValues}
    \cup {[NullMessage EXCEPT !.message_type = QUICRQ_ACTION_REQUEST_REPAIR,
                              !.final_object_id = v, !.object_id = w] :
        v \in WireValues, w \in WireValues}
    \cup {[NullMessage EXCEPT !.message_type = QUICRQ_ACTION_REPAIR,
                              !.object_id = v, !.offset = w, !.is_last_fragment = l,
                              !.length = Len(d), !.data = d] :
        v \in WireValues, w \in WireValues, l \in BOOLEAN, d \in WireData}
    \cup {[NullMessage EXCEPT !.message_type = QUICRQ_ACTION_ACCEPT,
                              !.datagram_stream_id = v] : v \in WireValues}

EncodeNext == \E msg \in WireMessages, extra \in {<<>>, <<1>>} : MsgEncode(msg, extra)

WireNext ==
    \/ EncodeNext
    \/ MsgDecode

SpecWire == Init /\ [][WireNext]_vars

Inserted ==
    {f \in Records(cached_ctx') : f.ptr > cached_ctx.last_ptr}

BoundaryRecords(c, g) ==
    {f \in Records(c) : f.group_id = g + 1 /\ f.object_id = 0 /\ f.offset = 0}

\* the places <<g, o, position>> of the bytes reader r has emitted
EmittedPlaces(r) ==
    LET b == EmittedBytes(sent[r])
    IN {b[i].place : i \in 1..Len(b)}

\* reader r has emitted object (g, o) up to a fragment marked last, and
\* every byte proposed for it
EmittedInFull(r, g, o) ==
    /\ \E i \in 1..Len(sent[r]) :
          /\ sent[r][i].group_id = g
          /\ sent[r][i].object_id = o
          /\ sent[r][i].is_last_fragment
    /\ \A b \in proposed : (b[1] = g /\ b[2] = o) => b \in EmittedPlaces(r)

\* the stream reader r leaves its group in this step
LeavesGroup(r) ==
    /\ streams[r].state = "attached"
    /\ streams'[r].state = "attached"
    /\ ~streams[r].is_datagram
    /\ streams'[r].media_ctx.current_group_id
           = streams[r].media_ctx.current_group_id + 1

\* C26: a stream reader moves from group g to group g + 1 only when a
\* record (g + 1, 0, 0) is cached and its current object id is at least the
\* object count that record declares for group g, and every object of
\* group g below that count has been emitted in full or skipped by it.
C26_CrossesOnlyWhenGroupDone ==
    [][\A r \in Readers : LeavesGroup(r) =>
          LET m == streams[r].media_ctx
          IN \E f \in BoundaryRecords(cached_ctx, m.current_group_id) :
                /\ m.current_object_id >= f.nb_objects_previous_group
                /\ \A o \in 0..(f.nb_objects_previous_group - 1) :
                      \/ EmittedInFull(r, m.current_group_id, o)
                      \/ <<m.current_group_id, o>> \in streams[r].skipped]_vars


(***************************************************************************)
(* The record a reader points at                                           *)
(***************************************************************************)
\* proposals, learned start points, both purges and the polls of both modes
PointerNext ==
    \/ MediaNext
    \/ StartNext
    \/ SubscribeNext
    \/ PollStreamNext
    \/ PollDatagramNext
    \/ ManageRelayCache
    \/ SetCacheDuration
    \/ PurgeToGob
    \/ Tick

SpecPointer == Init /\ [][PointerNext]_vars

\* C27: whatever the interleaving of proposals, learned start points,
\* purges and polls, the current_fragment of every attached reader, in
\* stream mode or in datagram mode, is NULL or a record still in the cache.
C27_CurrentFragmentCached ==
    \A r \in AttachedStreams :
        ~IsDangling(cached_ctx.fragment_tree, streams[r].media_ctx.current_fragment)


(***************************************************************************)
(* The horizon after an acknowledgement                                    *)
(***************************************************************************)
\* the record das is the one that continues the horizon of stream st
JustAfterHorizon(st, das) ==
    IF st.horizon_is_last_fragment
    THEN /\ Int64Diff(das.object_id, st.horizon_object_id) = 1
         /\ das.object_offset = 0
    ELSE /\ das.object_id = st.horizon_object_id
         /\ das.object_offset = st.horizon_offset

\* no record left is acknowledged and right after the horizon, and every
\* record left is at or above the horizon
HorizonCollapsed(st) ==
    \A i \in 1..Len(st.datagram_ack_tree) :
        LET das == st.datagram_ack_tree[i]
        IN /\ ~(das.is_acked /\ JustAfterHorizon(st, das))
           /\ quicrq_datagram_check_horizon(st, das.object_id, das.object_offset) >= 0

\* the transport reports in this step that a datagram of reader r reached
\* the peer: an ack, or a loss that proved spurious
AckEvent(r) ==
    /\ streams[r].state = "attached"
    /\ streams[r].is_datagram
    /\ Len(sent'[r]) = Len(sent[r])
    /\ \E i \in 1..Len(sent[r]) :
          sent[r][i].outcome # "acked" /\ sent'[r][i].outcome = "acked"

\* C28: after every ack or spurious loss event, whatever the order of the
\* acks, no ack record left in the tree is both acknowledged and right
\* after the horizon, and every record left is at or above the horizon.
C28_HorizonAfterAck ==
    [][\A r \in Readers : AckEvent(r) => HorizonCollapsed(streams'[r])]_vars


(***************************************************************************)
(* Loss reports                                                            *)
(***************************************************************************)
\* the transport reports a datagram lost, at most MaxLossReports times
LossReportNext ==
    \E r \in Readers : \E i \in 1..Len(sent[r]), room \in 1..ObjectLength :
        /\ Cardinality({j \in 1..Len(sent[r]) : sent[r][j].outcome = "lost"})
               < MaxLossReports
        /\ DatagramLostEvent(r, i, room)

LossNext ==
    \/ MediaNext
    \/ SubscribeNext
    \/ PollDatagramNext
    \/ AckedNext
    \/ LossReportNext
    \/ Tick

SpecLoss == Init /\ [][LossNext]_vars

\* the transport reports in this step that datagram i of reader r is lost
LossEvent(r, i) ==
    /\ streams[r].state = "attached"
    /\ streams[r].is_datagram
    /\ i \in 1..Len(sent[r])
    /\ sent[r][i].outcome = "flying"
    /\ sent'[r][i].outcome = "lost"

\* the ack records of stream st for the fragment of datagram d
LossRecords(st, d) ==
    {j \in 1..Len(st.datagram_ack_tree) :
        /\ st.datagram_ack_tree[j].object_id = d.object_id
        /\ st.datagram_ack_tree[j].object_offset = d.offset}

\* the step leaves the ack tracker of r as it was and queues nothing
LossIgnored(r) ==
    /\ streams'[r] = streams[r]
    /\ Len(sent'[r]) = Len(sent[r])

\* the step marks the record of datagram d and queues a repeat of it
LossRepeated(r, d) ==
    /\ \E j \in LossRecords(streams'[r], d) : streams'[r].datagram_ack_tree[j].fec_needed
    /\ Len(sent'[r]) > Len(sent[r])
    /\ LET repeat == sent'[r][Len(sent[r]) + 1]
       IN /\ repeat.is_repeat
          /\ repeat.object_id = d.object_id
          /\ repeat.offset = d.offset

\* C29: a loss report for a fragment with no ack record, or with a record
\* already acknowledged, is ignored; so is one whose record has a
\* last_sent_time within 1 ms of the sent_time reported; every other one
\* marks the record fec_needed and queues a repeat.
C29_LossHandling ==
    [][\A r \in Readers : \A i \in 1..Len(sent[r]) : LossEvent(r, i) =>
          LET d == sent[r][i]
              found == LossRecords(streams[r], d)
          IN IF found = {} \/ \E j \in found : streams[r].datagram_ack_tree[j].is_acked
             THEN LossIgnored(r)
             ELSE IF \E j \in found :
                        LET t == streams[r].datagram_ack_tree[j].last_sent_time
                        IN t <= d.sent_time + RepeatGuardTime
                           /\ d.sent_time <= t + RepeatGuardTime
                  THEN LossIgnored(r)
                  ELSE LossRepeated(r, d)]_vars


(***************************************************************************)
(* The split of a repeat                                                   *)
(***************************************************************************)
\* the datagrams the step queues for reader r
Queued(r) == SubSeq(sent'[r], Len(sent[r]) + 1, Len(sent'[r]))

\* the loss report of datagram i is answered by a repeat that did not fit
\* in one queued datagram: the first piece carries less than the payload
SplitRepeat(r, i) ==
    /\ LossEvent(r, i)
    /\ Queued(r) # <<>>
    /\ Len(Queued(r)[1].data) < Len(sent[r][i].data)

\* the payloads of the datagrams of q, one after the other
RECURSIVE Payloads(_)
Payloads(q) == IF q = <<>> THEN <<>> ELSE Head(q).data \o Payloads(Tail(q))

\* C30: when a repeat exceeds the maximum queued datagram size, every
\* datagram queued for it fits in that size, the pieces are consecutive,
\* do not overlap and together cover exactly the byte range of the lost
\* record, only the final piece carries the is_last_fragment of the record,
\* and the ack records after the split describe the same pieces.
C30_SplitRepeatCovers ==
    [][\A r \in Readers : \A i \in 1..Len(sent[r]) : SplitRepeat(r, i) =>
          LET d == sent[r][i]
              q == Queued(r)
              record == streams[r].datagram_ack_tree[
                            CHOOSE j \in LossRecords(streams[r], d) : TRUE]
          IN /\ LossRecords(streams[r], d) # {}
             /\ \E room \in 1..ObjectLength :
                   /\ Len(d.data) > room
                   /\ \A k \in 1..Len(q) : Len(q[k].data) <= room
             /\ q[1].offset = record.object_offset
             /\ \A k \in 1..Len(q) :
                   /\ q[k].object_id = record.object_id
                   /\ q[k].data # <<>>
                   /\ k < Len(q) => /\ q[k + 1].offset = q[k].offset + Len(q[k].data)
                                    /\ ~q[k].is_last_fragment
             /\ Payloads(q) = d.data
             /\ Len(d.data) = record.length
             /\ q[Len(q)].is_last_fragment = record.is_last_fragment
             /\ \A k \in 1..Len(q) :
                   \E j \in LossRecords(streams'[r], q[k]) :
                       LET das == streams'[r].datagram_ack_tree[j]
                       IN /\ das.length = Len(q[k].data)
                          /\ das.is_last_fragment = q[k].is_last_fragment]_vars


(***************************************************************************)
(* The last fragment bit of a datagram                                     *)
(***************************************************************************)
\* the reader r emits a datagram of the cache in this step
Emits(r) ==
    /\ streams[r].state = "attached"
    /\ streams[r].is_datagram
    /\ Len(sent'[r]) = Len(sent[r]) + 1
    /\ ~sent'[r][Len(sent'[r])].is_repeat

\* the datagram dg carries bytes of the cached record f up to its end
CarriesEndOf(dg, f) ==
    /\ dg.group_id = f.group_id
    /\ dg.object_id = f.object_id
    /\ f.offset <= dg.offset
    /\ dg.offset + Len(dg.data) = f.offset + f.data_length

\* the ack records a step creates for stream r
CreatedRecords(r) ==
    {j \in 1..Len(streams'[r].datagram_ack_tree) :
        <<streams'[r].datagram_ack_tree[j].object_id,
          streams'[r].datagram_ack_tree[j].object_offset>> \notin AckKeys(streams[r])}

\* C31: a datagram reader sets is_last_fragment in a datagram it emits, and
\* in the ack record it creates for it, only when the datagram carries the
\* final bytes of a cached fragment flagged last or is the zero-length
\* placeholder of a skipped object; a datagram that stops short of the end
\* of the fragment it is cut from goes out with is_last_fragment cleared.
C31_LastBitOnlyAtEnd ==
    [][\A r \in Readers : Emits(r) =>
          LET dg == sent'[r][Len(sent'[r])]
              f == Fragment(cached_ctx.fragment_tree,
                            streams'[r].media_ctx.current_fragment)
          IN /\ dg.is_last_fragment =>
                   \/ dg.is_skip /\ dg.data = <<>>
                   \/ \E h \in Records(cached_ctx) :
                          h.is_last_fragment /\ CarriesEndOf(dg, h)
             /\ \A j \in CreatedRecords(r) :
                   LET das == streams'[r].datagram_ack_tree[j]
                   IN /\ das.object_id = dg.object_id
                      /\ das.object_offset = dg.offset
                      /\ das.is_last_fragment = dg.is_last_fragment
             /\ (~dg.is_skip /\ dg.offset + Len(dg.data) < f.offset + f.data_length)
                   => ~dg.is_last_fragment]_vars

\* a datagram emitted is the head of a last fragment that the budget cut
C31_Witness ==
    \E r \in DatagramReaders : \E i \in 1..Len(sent[r]) :
        /\ ~sent[r][i].is_repeat
        /\ ~sent[r][i].is_skip
        /\ ~sent[r][i].is_last_fragment
        /\ \E h \in Records(cached_ctx) :
              /\ h.is_last_fragment
              /\ h.group_id = sent[r][i].group_id
              /\ h.object_id = sent[r][i].object_id
              /\ h.offset = sent[r][i].offset
              /\ Len(sent[r][i].data) < h.data_length


(***************************************************************************)
(* The final point recorded by a datagram reader                           *)
(***************************************************************************)
\* the datagram reader r records the final point into its stream
RecordsFinal(r) ==
    /\ streams[r].state = "attached"
    /\ streams'[r].state = "attached"
    /\ streams[r].is_datagram
    /\ streams[r].final_group_id = 0 /\ streams[r].final_object_id = 0
    /\ streams'[r].final_group_id # 0 \/ streams'[r].final_object_id # 0

\* every object from the first point up to the final point of cache c is
\* cached from offset 0 to a last fragment; the objects of a group before
\* the final one are those the first record of the next group counts
ReceivedBelowFinal(c) ==
    \A g \in 0..c.final_group_id :
        /\ g < c.final_group_id => BoundaryRecords(c, g) # {}
        /\ \A o \in 0..MaxObject + 1 :
              (/\ PairLE(<<c.first_group_id, c.first_object_id>>, <<g, o>>)
               /\ IF g = c.final_group_id
                  THEN o < c.final_object_id
                  ELSE \E f \in BoundaryRecords(c, g) : o < f.nb_objects_previous_group)
                  => CachedCompletely(c, g, o)

\* reader r has sent every byte of record f, or the placeholder of its
\* object
SentOrSkipped(r, f) ==
    \/ \E i \in 1..Len(sent[r]) :
          /\ sent[r][i].is_skip
          /\ sent[r][i].group_id = f.group_id
          /\ sent[r][i].object_id = f.object_id
    \/ \A pos \in f.offset..(f.offset + f.data_length - 1) :
          \E i \in 1..Len(sent[r]) :
              /\ ~sent[r][i].is_skip
              /\ sent[r][i].group_id = f.group_id
              /\ sent[r][i].object_id = f.object_id
              /\ sent[r][i].offset <= pos
              /\ pos < sent[r][i].offset + Len(sent[r][i].data)

\* C32: a datagram reader records the final point into its stream only
\* when the final point of the cache is known and is the point recorded,
\* every fragment of every object below it has been received into the
\* cache, and the reader has sent in full or skipped every fragment of the
\* arrival list.
C32_FinalOnlyWhenDone ==
    [][\A r \in Readers : RecordsFinal(r) =>
          /\ cached_ctx.final_group_id # 0 \/ cached_ctx.final_object_id # 0
          /\ streams'[r].final_group_id = cached_ctx.final_group_id
          /\ streams'[r].final_object_id = cached_ctx.final_object_id
          /\ ReceivedBelowFinal(cached_ctx)
          /\ \A f \in Records(cached_ctx) : SentOrSkipped(r, f)]_vars

(***************************************************************************)
(* Stream activity: quicrq_prepare_to_send_datagram.                       *)
(***************************************************************************)
\* quicrq_prepare_to_send_datagram on the connection of reader r: the
\* stream is polled when it is marked active, and is marked inactive when
\* the poll sends nothing; payload is space - h_size
PrepareToSendDatagram(r, payload, congested) ==
    /\ Running
    /\ streams[r].state = "attached"
    /\ streams[r].is_datagram
    /\ streams[r].is_active_datagram
    /\ streams[r].media_ctx.length_sent <= MaxEnd
    /\ \E stale \in StaleFragments(cached_ctx.fragment_tree,
                                   streams[r].media_ctx.current_fragment) :
         \E got \in {quicrq_fragment_datagram_publisher_fn(
                          streams[r], cached_ctx, payload, congested, stale)} :
            /\ streams' = [streams EXCEPT ![r] =
                              IF got.media_was_sent THEN got.st
                              ELSE [got.st EXCEPT !.is_active_datagram = FALSE]]
            /\ sent' = [sent EXCEPT ![r] =
                           IF got.media_was_sent
                           THEN Append(@, InFlight(got.datagram, got.should_skip, FALSE))
                           ELSE @]
            /\ Cardinality({i \in 1..Len(sent'[r]) : ~sent'[r][i].is_repeat}) <= MaxSent
    /\ UNCHANGED <<cached_ctx, srce_ctx, qr_ctx, current_time, hung, proposed, ret, control_ctx, handled, wire, pipe>>

\* the transport offers any room from the bare header up to a whole object
ActivePollNext ==
    \E r \in Readers, payload \in 0..ObjectLength :
        PrepareToSendDatagram(r, payload, FALSE)

ActivityNext ==
    \/ MediaNext
    \/ FinalNext
    \/ SubscribeNext
    \/ ActivePollNext

\* the transport keeps calling for datagrams while a stream is marked
\* active; the publisher may stop at any time
SpecActivityFair ==
    /\ Init
    /\ [][ActivityNext]_vars
    /\ WF_vars(ActivePollNext)

\* datagram reader r is attached and some cached fragment has neither been
\* sent in full nor skipped by it
HasUnsent(r) ==
    /\ streams[r].state = "attached"
    /\ streams[r].is_datagram
    /\ \E f \in Records(cached_ctx) : ~SentOrSkipped(r, f)

\* C33: a datagram stream is marked inactive only when its reader has
\* sent or skipped every cached fragment; a propose that adds data leaves
\* every attached datagram stream active; no reader stays inactive for
\* ever while the cache holds a fragment it has not sent.
C33_InactiveOnlyWhenDrained ==
    /\ [][\A r \in Readers :
            (streams[r].is_active_datagram /\ ~streams'[r].is_active_datagram)
                => ~HasUnsent(r)]_vars
    /\ [][Records(cached_ctx') # Records(cached_ctx)
            => \A r \in Readers :
                  (streams'[r].state = "attached" /\ streams'[r].is_datagram)
                      => streams'[r].is_active_datagram]_vars
    /\ \A r \in Readers : ~<>[](HasUnsent(r) /\ ~streams[r].is_active_datagram)

(***************************************************************************)
(* Real-time purge.                                                        *)
(***************************************************************************)
\* a real-time relay: media arrives, readers of both modes subscribe and
\* are polled, and the groups behind the readers are purged
RealTimeMediaNext ==
    /\ cached_ctx.last_ptr < MaxPurgeFragments
    /\ \E x \in MediaFragments : ValidMediaFragment(x) /\ ConsumerFragment(x, 0)

RealTimeNext ==
    \/ RealTimeMediaNext
    \/ SubscribeNext
    \/ PollStreamNext
    \/ PollDatagramNext
    \/ PurgeToGob

SpecRealTime == Init /\ [][RealTimeNext]_vars

\* the minimum of next_group_id and the current group of every attached
\* reader
KeptGroup ==
    LET groups == {cached_ctx.next_group_id} \cup
                  {Cursor(streams[r])[1] :
                      r \in {q \in AttachedStreams : HasCursor(streams[q])}}
    IN CHOOSE g \in groups : \A h \in groups : g <= h

\* C34: the real-time purge removes exactly the fragments whose group is
\* below the minimum of next_group_id and the current group of every
\* attached reader, and leaves first_* at the (group, object) of the
\* smallest remaining fragment.
C34_PurgeToGobExact ==
    [][PurgeToGob =>
          /\ \A f \in Records(cached_ctx) : (f \in Purged) <=> (f.group_id < KeptGroup)
          /\ \A f \in Records(cached_ctx') :
                (\A h \in Records(cached_ctx') :
                    LexLE(<<f.group_id, f.object_id, f.offset>>,
                          <<h.group_id, h.object_id, h.offset>>))
                    => /\ cached_ctx'.first_group_id = f.group_id
                       /\ cached_ctx'.first_object_id = f.object_id]_vars

(***************************************************************************)
(* The final point set by quicrq_media_close.                              *)
(***************************************************************************)
\* the fragments a publisher may send before it closes: those of the
\* media, and those of one object more in each group
CloseFragments ==
    {[group_id |-> g, object_id |-> o, offset |-> off, data_length |-> len,
      is_last_fragment |-> (off + len = ObjectLength),
      nb_objects_previous_group |-> IF g > 0 /\ o = 0 /\ off = 0 THEN MaxObject + 1 ELSE 0,
      flags |-> 0] :
        g \in 0..MaxGroup, o \in 0..(MaxObject + 1),
        off \in 0..(ObjectLength - 1), len \in 1..ObjectLength}

CloseMediaNext ==
    /\ cached_ctx.last_ptr < MaxCloseFragments
    /\ \E x \in CloseFragments : ValidMediaFragment(x) /\ ConsumerFragment(x, 0)

\* media arrives, the start point and the final point may be learned, and
\* the consumer closes
ClosingNext ==
    \/ CloseMediaNext
    \/ StartNext
    \/ FinalNext
    \/ ConsumerClose

SpecClose == Init /\ [][ClosingNext]_vars

\* the cached fragments whose key is below (next_group_id, 0, 0)
BelowNextGroup(c) == {f \in Records(c) : f.group_id < c.next_group_id}

\* the final point of a cache closed with its final point unknown
DerivedFinal(c) ==
    IF c.next_offset = 0 THEN <<c.next_group_id, c.next_object_id>>
    ELSE IF c.next_object_id > 1 THEN <<c.next_group_id, c.next_object_id - 1>>
    ELSE IF BelowNextGroup(c) # {}
         THEN LET f == CHOOSE h \in BelowNextGroup(c) :
                           \A k \in BelowNextGroup(c) :
                               LexLE(<<k.group_id, k.object_id, k.offset>>,
                                     <<h.group_id, h.object_id, h.offset>>)
              IN <<f.group_id, f.object_id>>
         ELSE <<c.first_group_id, c.first_object_id>>

\* C35: when the consumer closes a cache whose final point is unknown,
\* final_* becomes (next_group, next_object) if next_offset is 0, else
\* (next_group, next_object - 1) if next_object > 1, else the (group,
\* object) of the largest cached fragment below (next_group, 0, 0), else
\* (first_group, first_object).
C35_CloseDerivesFinal ==
    [][(ConsumerClose /\ cached_ctx.final_group_id = 0 /\ cached_ctx.final_object_id = 0)
          => <<cached_ctx'.final_group_id, cached_ctx'.final_object_id>>
                 = DerivedFinal(cached_ctx)]_vars

(***************************************************************************)
(* The consumer's return value.                                            *)
(***************************************************************************)
\* the peer may announce any final point, before or after any fragment
AnyFinalNext ==
    \E g \in 0..MaxGroup, o \in 0..(MaxObject + 1) : ConsumerFinal(g, o)

FinishNext ==
    \/ CloseMediaNext
    \/ AnyFinalNext

SpecFinish == Init /\ [][FinishNext]_vars

\* the final point is known (final_* is zero while it is not) and the
\* frontier has reached it
AtFinal(c) ==
    /\ c.final_group_id # 0 \/ c.final_object_id # 0
    /\ c.next_group_id = c.final_group_id
    /\ c.next_object_id = c.final_object_id

\* C36: a fragment notification or a final-object notification returns
\* quicrq_consumer_finished exactly when, after it, the final point is known
\* and (next_group_id, next_object_id) is (final_group_id, final_object_id).
C36_FinishedExactlyAtFinal ==
    [][(CloseMediaNext \/ AnyFinalNext)
          => ((ret' = quicrq_consumer_finished) <=> AtFinal(cached_ctx'))]_vars

(***************************************************************************)
(* The frontier after the start point is learned.                          *)
(***************************************************************************)
\* the start point learned in this step is ahead of the frontier
StartAheadOfFrontier ==
    /\ StartNext
    /\ ~PairLE(<<cached_ctx'.first_group_id, cached_ctx'.first_object_id>>,
               <<cached_ctx.next_group_id, cached_ctx.next_object_id>>)

\* C37: after learn_start(g, o) on a cache whose frontier was behind
\* (g, o), first_* is (g, o), no fragment with key below (g, o, 0) remains,
\* and the frontier is (g, o) at offset 0.
C37_StartSnapsFrontier ==
    [][StartAheadOfFrontier =>
          /\ \A f \in Records(cached_ctx') :
                LexLE(<<cached_ctx'.first_group_id, cached_ctx'.first_object_id, 0>>,
                      <<f.group_id, f.object_id, f.offset>>)
          /\ Frontier(cached_ctx') =
                <<cached_ctx'.first_group_id, cached_ctx'.first_object_id, 0>>]_vars

(***************************************************************************)
(* Control messages on the byte stream: quicrq_message_buffer_t.           *)
(***************************************************************************)
\* a byte the allocator left unwritten
Unwritten == -1

\* quicrq_msg_buffer_alloc, malloc succeeding: the buffer grows to space
\* bytes and keeps the first bytes_stored
quicrq_msg_buffer_alloc(b, space, bytes_stored) ==
    IF bytes_stored > Len(b.buffer) THEN [b |-> b, ret |-> -1]
    ELSE IF space > Len(b.buffer)
         THEN [b |-> [b EXCEPT !.buffer =
                         [i \in 1..space |->
                             IF i <= bytes_stored THEN b.buffer[i] ELSE Unwritten]],
               ret |-> 0]
         ELSE [b |-> b, ret |-> 0]

\* lines 1209-1215: the two bytes of the length
RECURSIVE StoreLength(_, _)
StoreLength(b, bytes) ==
    IF b.nb_bytes_read < 2 /\ Len(bytes) > 0
    THEN StoreLength([b EXCEPT !.nb_bytes_read = @ + 1,
                               !.message_size = @ * 256 + bytes[1]],
                     Tail(bytes))
    ELSE [b |-> b, bytes |-> bytes]

\* the copy of everything that was received, not just what the message
\* still requires
msg_buffer_store_takes_all(bytes, msg_buffer) ==
    LET h == StoreLength(msg_buffer, bytes)
        bytes_stored == h.b.nb_bytes_read - 2
        required == h.b.message_size - bytes_stored
        a == quicrq_msg_buffer_alloc(h.b, h.b.message_size + Len(h.bytes), bytes_stored)
    IN IF h.b.nb_bytes_read < 2
       THEN [b |-> h.b, bytes |-> h.bytes, is_finished |-> FALSE, failed |-> FALSE]
       ELSE IF required <= 0
            THEN [b |-> h.b, bytes |-> h.bytes, is_finished |-> TRUE, failed |-> FALSE]
            ELSE [b |-> [a.b EXCEPT
                            !.buffer = [i \in 1..Len(a.b.buffer) |->
                                           IF i > bytes_stored /\ i <= bytes_stored + Len(h.bytes)
                                           THEN h.bytes[i - bytes_stored]
                                           ELSE a.b.buffer[i]],
                            !.nb_bytes_read = @ + Len(h.bytes)],
                  bytes |-> <<>>,
                  is_finished |-> Len(h.bytes) >= required,
                  failed |-> FALSE]

\* quicrq_msg_buffer_store: bytes is what remains to be read, or failed
quicrq_msg_buffer_store(bytes, msg_buffer) ==
    LET h == StoreLength(msg_buffer, bytes)
        bytes_stored == h.b.nb_bytes_read - 2
        required == h.b.message_size - bytes_stored
        a == quicrq_msg_buffer_alloc(h.b, h.b.message_size, bytes_stored)
        length == IF Len(h.bytes) >= required THEN required ELSE Len(h.bytes)
    IN IF h.b.nb_bytes_read < 2
       THEN [b |-> h.b, bytes |-> h.bytes, is_finished |-> FALSE, failed |-> FALSE]
       ELSE IF required <= 0
            THEN [b |-> h.b, bytes |-> h.bytes, is_finished |-> TRUE, failed |-> FALSE]
            ELSE IF a.ret # 0
                 THEN [b |-> a.b, bytes |-> <<>>, is_finished |-> FALSE, failed |-> TRUE]
                 ELSE [b |-> [a.b EXCEPT
                                 !.buffer = [i \in 1..Len(a.b.buffer) |->
                                                IF i > bytes_stored /\ i <= bytes_stored + length
                                                THEN h.bytes[i - bytes_stored]
                                                ELSE a.b.buffer[i]],
                                 !.nb_bytes_read = @ + length],
                       bytes |-> SubSeq(h.bytes, length + 1, Len(h.bytes)),
                       is_finished |-> Len(h.bytes) >= required,
                       failed |-> FALSE]

quicrq_msg_buffer_reset(msg_buffer) ==
    [msg_buffer EXCEPT !.nb_bytes_read = 0, !.message_size = 0]

\* lines 1281-1290: the length on two bytes, as far as available allows
RECURSIVE FeedLength(_, _, _)
FeedLength(nb_bytes_read, available, total_size) ==
    IF nb_bytes_read < 2 /\ available > 0
    THEN <<IF nb_bytes_read = 0 THEN (total_size \div 256) % 256 ELSE total_size % 256>>
         \o FeedLength(nb_bytes_read + 1, available - 1, total_size)
    ELSE <<>>

\* quicrq_msg_buffer_prepare_to_send, the transport providing the buffer:
\* out is what is written to the stream
quicrq_msg_buffer_prepare_to_send(msg_buffer, send_state, space) ==
    LET total_size == msg_buffer.message_size
        total_to_send == 2 + total_size
        available == IF total_to_send - msg_buffer.nb_bytes_read > space THEN space
                     ELSE total_to_send - msg_buffer.nb_bytes_read
        length == FeedLength(msg_buffer.nb_bytes_read, available, total_size)
        nb1 == msg_buffer.nb_bytes_read + Len(length)
        available1 == available - Len(length)
        offset == nb1 - 2
        content == IF available1 > 0 /\ nb1 < msg_buffer.message_size + 2
                   THEN SubSeq(msg_buffer.buffer, offset + 1, offset + available1)
                   ELSE <<>>
        nb2 == nb1 + Len(content)
    IN IF msg_buffer.nb_bytes_read < total_to_send
       THEN IF nb2 >= total_to_send
            THEN [b |-> [msg_buffer EXCEPT !.nb_bytes_read = 0, !.message_size = 0],
                  send_state |-> "quicrq_sending_ready",
                  out |-> length \o content]
            ELSE [b |-> [msg_buffer EXCEPT !.nb_bytes_read = nb2],
                  send_state |-> send_state,
                  out |-> length \o content]
       ELSE [b |-> msg_buffer, send_state |-> send_state, out |-> <<>>]

\* the control messages queued: empty, short ones, and a long one
FramedMessages ==
    {<<>>, <<1>>, <<2, 255>>, [i \in 1..LongMessage |-> i % 256]}

\* the room the transport offers for a send, the bytes it delivers at once
Chunks == {1, 3, MaxInFlight}

\* quicrq_prepare_to_send_on_stream: when ready, the next message m is
\* encoded into message_sent, which is allocated with room to spare; then
\* what fits in space is sent
PrepareToSendOnStream(m, space) ==
    /\ pipe.send_state = "quicrq_sending_ready" => Len(pipe.queued) < MaxMessages
    /\ LET loaded == IF pipe.send_state = "quicrq_sending_ready"
                     THEN [message_sent |->
                               [nb_bytes_read |-> pipe.message_sent.nb_bytes_read,
                                message_size |-> Len(m),
                                buffer |-> m \o <<Unwritten>>],
                           send_state |-> "quicrq_sending_offset",
                           queued |-> Append(pipe.queued, m)]
                     ELSE [message_sent |-> pipe.message_sent,
                           send_state |-> pipe.send_state,
                           queued |-> pipe.queued]
       IN \E r \in {quicrq_msg_buffer_prepare_to_send(
                        loaded.message_sent, loaded.send_state, space)} :
            pipe' = [pipe EXCEPT !.message_sent = r.b,
                                 !.send_state = r.send_state,
                                 !.stream = @ \o r.out,
                                 !.queued = loaded.queued]
    /\ UNCHANGED <<cached_ctx, srce_ctx, streams, qr_ctx, current_time, hung, proposed,
                   ret, sent, control_ctx, handled, wire>>

\* lines 2215-2233, 2336: every message held by the bytes received is
\* taken out of message_receive, which is then reset
RECURSIVE ReassembleLoop(_, _, _)
ReassembleLoop(msg_buffer, bytes, log) ==
    IF Len(bytes) = 0 THEN [b |-> msg_buffer, log |-> log]
    ELSE LET s == quicrq_msg_buffer_store(bytes, msg_buffer)
         IN IF s.failed THEN [b |-> s.b, log |-> log]
            ELSE IF s.is_finished
                 THEN ReassembleLoop(quicrq_msg_buffer_reset(s.b), s.bytes,
                                  Append(log, SubSeq(s.b.buffer, 1, s.b.message_size)))
                 ELSE ReassembleLoop(s.b, s.bytes, log)

\* picoquic_callback_stream_data: the transport delivers the next bytes of
\* the stream, at most length of them
ReceiveStreamBytes(length) ==
    /\ Len(pipe.stream) > 0
    /\ LET n == IF length > Len(pipe.stream) THEN Len(pipe.stream) ELSE length
       IN \E r \in {ReassembleLoop(pipe.message_receive, SubSeq(pipe.stream, 1, n),
                                pipe.received)} :
            pipe' = [pipe EXCEPT !.message_receive = r.b,
                                 !.received = r.log,
                                 !.stream = SubSeq(@, n + 1, Len(@))]
    /\ UNCHANGED <<cached_ctx, srce_ctx, streams, qr_ctx, current_time, hung, proposed,
                   ret, sent, control_ctx, handled, wire>>

\* the transport asks for data while the flow control window has room
SendBytesNext ==
    \E m \in FramedMessages, space \in Chunks :
        /\ Len(pipe.stream) + space <= MaxInFlight
        /\ PrepareToSendOnStream(m, space)

ReceiveBytesNext == \E length \in Chunks : ReceiveStreamBytes(length)

FramingNext ==
    \/ SendBytesNext
    \/ ReceiveBytesNext

SpecFraming == Init /\ [][FramingNext]_vars

\* a is the beginning of b
IsPrefix(a, b) == Len(a) <= Len(b) /\ SubSeq(b, 1, Len(a)) = a

\* everything queued was sent and everything sent was delivered
Drained == pipe.send_state = "quicrq_sending_ready" /\ pipe.stream = <<>>

\* C38: however the sender's space and the transport's deliveries cut the
\* byte stream, the messages the receiver reassembles are the messages
\* queued, in order, and all of them once every byte is delivered.
C38_MessagesReassembled ==
    /\ IsPrefix(pipe.received, pipe.queued)
    /\ Drained => pipe.received = pipe.queued

\* C38 witness: the long message and a short one were both reassembled, the
\* long one from pieces
C38_Witness ==
    /\ Drained
    /\ Len(pipe.received) = MaxMessages
    /\ \E i \in 1..Len(pipe.received) : Len(pipe.received[i]) = LongMessage
    /\ \E i \in 1..Len(pipe.received) : Len(pipe.received[i]) = 2
    /\ Len(pipe.message_receive.buffer) = LongMessage

(***************************************************************************)
(* quicrq_relay_subscribe_pattern, unsubscribe.                            *)
(***************************************************************************)
Patterns == 1..NumPatterns

\* a connection is accepted or opened: it joins the list of the node
CnxCreate(is_server) ==
    /\ ~hung
    /\ Len(qr_ctx.first_cnx) < MaxCnx
    /\ qr_ctx' = [qr_ctx EXCEPT !.first_cnx =
                     Append(@, [is_server |-> is_server, first_stream |-> <<>>])]
    /\ UNCHANGED <<cached_ctx, srce_ctx, streams, current_time, hung, proposed, ret, sent, control_ctx, handled, wire, pipe>>

\* a stream is opened on connection c; notify: it subscribes to prefix and
\* waits to notify (send_state quicrq_notify_ready)
CnxStreamCreate(c, notify, prefix) ==
    /\ ~hung
    /\ c \in 1..Len(qr_ctx.first_cnx)
    /\ Len(qr_ctx.first_cnx[c].first_stream) < MaxCnxStreams
    /\ qr_ctx' = [qr_ctx EXCEPT !.first_cnx[c].first_stream =
                     Append(@, [send_state |-> IF notify THEN "quicrq_notify_ready"
                                               ELSE "quicrq_sending_ready",
                                subscribe_prefix |-> prefix])]
    /\ UNCHANGED <<cached_ctx, srce_ctx, streams, current_time, hung, proposed, ret, sent, control_ctx, handled, wire, pipe>>

\* lines 1429-1438: does a stream of the connection subscribe to url
StreamSubscribes(cnx, url) ==
    \E i \in 1..Len(cnx.first_stream) :
        /\ cnx.first_stream[i].send_state = "quicrq_notify_ready"
        /\ cnx.first_stream[i].subscribe_prefix = url

\* lines 1425-1440: the loop over the connections; cnx_ctx is the index of
\* the connection looked at, 0 for NULL; seen holds the loop states gone
\* through, and a state met again means the loop never ends
RECURSIVE UnsubscribeLoop(_, _, _, _, _)
UnsubscribeLoop(first_cnx, cnx_ctx, is_subscribed, url, seen) ==
    IF ~(cnx_ctx # NULL /\ ~is_subscribed)
    THEN [is_subscribed |-> is_subscribed, hangs |-> FALSE]
    ELSE IF <<cnx_ctx, is_subscribed>> \in seen
    THEN [is_subscribed |-> is_subscribed, hangs |-> TRUE]
    ELSE UnsubscribeLoop(first_cnx, cnx_ctx,
                         /\ first_cnx[cnx_ctx].is_server
                         /\ StreamSubscribes(first_cnx[cnx_ctx], url),
                         url, seen \cup {<<cnx_ctx, is_subscribed>>})

\* quicrq_relay_subscribe_pattern(quicrq_subscribe_action_unsubscribe);
\* has_origin: relay_ctx->cnx_ctx is not NULL
UnsubscribePattern(url, has_origin) ==
    /\ ~hung
    /\ hung' = IF has_origin
               THEN UnsubscribeLoop(qr_ctx.first_cnx,
                                    IF Len(qr_ctx.first_cnx) = 0 THEN NULL ELSE 1,
                                    FALSE, url, {}).hangs
               ELSE FALSE
    /\ UNCHANGED <<cached_ctx, srce_ctx, streams, qr_ctx, current_time, proposed, ret, sent, control_ctx, handled, wire, pipe>>

CnxNext ==
    \/ \E is_server \in BOOLEAN : CnxCreate(is_server)
    \/ \E c \in 1..MaxCnx, notify \in BOOLEAN, prefix \in Patterns :
          CnxStreamCreate(c, notify, prefix)

UnsubscribeNext == \E url \in Patterns, has_origin \in BOOLEAN : UnsubscribePattern(url, has_origin)

PatternNext ==
    \/ CnxNext
    \/ UnsubscribeNext

SpecPattern == Init /\ [][PatternNext]_vars

\* C39: handling an unsubscribe for a pattern returns, whatever the client
\* connections and their streams are, whether or not a client stream still
\* subscribes to the pattern.
C39_UnsubscribeReturns == [][UnsubscribeNext => ~hung']_vars


(***************************************************************************)
(* nb_object_received against the objects that are complete in the cache.  *)
(***************************************************************************)
\* the (group, object) pairs of c cached from offset 0 through a fragment
\* flagged last
CompleteObjects(c) ==
    {go \in (0..MaxGroup) \X (0..MaxObject) : CachedCompletely(c, go[1], go[2])}

\* C40: over propose calls alone, nb_object_received never exceeds the
\* number of distinct (group, object) pairs that are complete in the cache:
\* no object is counted twice.
C40_ObjectsCountedOnce ==
    cached_ctx.nb_object_received <= Cardinality(CompleteObjects(cached_ctx))

====
